---- MODULE Spec2Model ----
(***************************************************************************)
(* Model of the nexo_im gateway connection wrapper (WebsocketClientConn),  *)
(* of the conversation list pagination and read-seq bookkeeping of         *)
(* ConversationService, and of the per-conversation sequence allocator.    *)
(*                                                                         *)
(* Three specifications share the module, one per subsystem:               *)
(*   SpecConn  one WebsocketClientConn with its write loop, concurrent     *)
(*             WriteMessage callers and concurrent Close callers;          *)
(*   SpecPage  GetUserConversationsPage over a conversation table;         *)
(*   SpecSeq   allocate / mark_read on the sequence rows.                  *)
(***************************************************************************)
EXTENDS Integers, Sequences, FiniteSets, TLC

(***************************************************************************)
(* Bounds of the connection model.                                         *)
(***************************************************************************)
\* Capacity of writeChan.  The source allocates make(chan []byte, 256); the
\* model is parametric in the capacity and is checked with a small one.
WriteChanCap == 2
\* Total number of WriteMessage calls issued in one behaviour.
MaxWrites == 3
\* Total number of Close calls issued in one behaviour.
MaxCloses == 2

(***************************************************************************)
(* Bounds of the conversation list model.                                  *)
(***************************************************************************)
\* Conversation ids of the exhaustively enumerated tables are 1..MaxConvs.
MaxConvs == 3
\* updated_at values of the enumerated tables are 1..MaxTime.
MaxTime == 2

\* service.DefaultConversationListLimit, service.MaxConversationListLimit
DefaultConversationListLimit == 20
MaxConversationListLimit == 100

(***************************************************************************)
(* Bounds of the sequence model.                                           *)
(***************************************************************************)
\* max_seq of a conversation stays within MaxSeq.
MaxSeq == 3
\* An allocate call asks for 1..MaxBatch numbers.
MaxBatch == 2

\* Goroutines calling WriteMessage, goroutines calling Close.
Writers == {"w1", "w2"}
Closers == {"k1", "k2"}
\* Payloads handed to WriteMessage.
Payloads == {"a", "b"}

\* Name of the write loop goroutine, as an owner of a socket write.
WriteLoopId == "writeLoop"

\* errors of the gateway package; NoErr is Go's nil error
NoErr == "nil"
ErrConnClosed == "ErrConnClosed"
ErrWriteChannelFull == "ErrWriteChannelFull"
\* a call that has not returned yet
Pending == "pending"
\* value of a local variable outside the call or iteration it belongs to
NoData == "none"

VARIABLES
    \* ---- WebsocketClientConn ----
    writeChan,      \* buffered content of c.writeChan, oldest first
    chanCloses,     \* [writeChan |-> n, closeChan |-> n]: close() executions
    closed,         \* c.closed
    writeMu,        \* holder of c.writeMu, or "free"
    closeOnce,      \* c.closeOnce: "new", "running" or "done"
    pcW,            \* position of each WriteMessage caller
    argW,           \* data argument of the caller's current call
    retW,           \* return value of the caller's latest call
    lateW,          \* the caller's latest call began after a Close had returned
    pcC,            \* position of each Close caller
    retC,           \* return value of the closer's latest call
    pcL,            \* position of the write loop
    curMsg,         \* message received by the write loop, being written
    sockWriting,    \* goroutines with a conn.WriteMessage in progress
    wire,           \* data and close frames written to the socket, in order
    sockCloses,     \* number of conn.Close() executions
    accepted,       \* payloads for which WriteMessage returned nil, in order
    nWrites,        \* WriteMessage calls issued so far
    nCloses,        \* Close calls issued so far
    closeReturned,  \* some Close call has returned
    panic,          \* Go runtime panic raised, or "none"
    loopEnd,        \* the return statement the write loop left by, or "none"
    \* ---- conversation list ----
    convs,          \* rows of the conversations table
    pgMode,         \* "start", "paging", "done" (client session) or "probed"
    pgLimit,        \* the limit the paging client sends with every request
    pgCursor,       \* the cursor the paging client sends next: <<>> or <<c>>
    pgPages,        \* concatenation of the pages the client received
    lastReq,        \* arguments of the latest GetUserConversationsPage call
    lastRes,        \* result of the latest GetUserConversationsPage call
    \* ---- sequence rows ----
    maxSeq,         \* ConversationSeq.max_seq of each conversation
    readSeq,        \* UserSeq.read_seq of each (user, conversation)
    pcA,            \* position of each allocate caller
    argA,           \* conversation of the caller's allocate call
    retA,           \* range the caller's allocate call was given
    floorA,         \* greatest number returned before the caller's call began
    returned,       \* greatest number returned so far, per conversation
    issued,         \* numbers handed out, in order, per conversation
    markReq,        \* latest mark_read request of each user, being handled
                    \* ("pending") or answered with success ("served")
    \* ---- sdk actor ids ----
    acActor,        \* the actor converted to its IM user id, or <<>>
    acStr,          \* the IM user id string at hand, a sequence of characters
    acParsed,       \* result of GetActorFromUserId(acStr), or <<>>
    acList,         \* argument of the latest MGetActorFromUserIds call
    acMRes,         \* result of the latest MGetActorFromUserIds call, or <<>>
    \* ---- auth middleware ----
    cfg,            \* config.GlobalConfig, the snapshot loaded at startup
    infraEnv,       \* the INFRA_ENV environment variable
    httpReq,        \* the request in the middleware chain, or <<>>
    httpRes,        \* what the chain did with it: abort code, handler run,
                    \* values bound to the request context
    \* ---- conversation settings and unread counts ----
    convTable,      \* conversations rows by owner and conversation id, <<>>
                    \* where there is none
    cvReq,          \* the conversation request being served, or <<>>
    cvRes,          \* its response, and whether storage was written
    \* ---- send and pull ----
    msgStore,       \* the persisted message rows
    sndPc,          \* position of each send in the send path
    sndReq,         \* the send request of each sender
    sndSeq,         \* the seq allocated to the send, 0 before
    sndRow,         \* the row the store gave back to the send, or <<>>
    responses,      \* the send responses returned so far, in order
    pullRes,        \* the latest pull: its range, the messages returned and
                    \* how many send responses had been returned before it
    \* ---- gateway ----
    gwSess,         \* every session created so far, in order of creation
    gwTable,        \* the connection table: user_id -> platform_id -> session
    gwHandled,      \* how many requests reached a registered handler
    \* ---- the server process ----
    mainPc,         \* position of main: "serving", "signalled", "stopped"
                    \* (h.Shutdown has returned) or "exited"
    mainSig,        \* the signal main received, or ""
    listening       \* the HTTP listener accepts connections

connVars == <<writeChan, chanCloses, closed, writeMu, closeOnce, pcW, argW,
              retW, lateW, pcC, retC, pcL, curMsg, sockWriting, wire,
              sockCloses, accepted, nWrites, nCloses, closeReturned,
              panic, loopEnd>>

pageVars == <<convs, pgMode, pgLimit, pgCursor, pgPages, lastReq, lastRes>>

seqVars == <<maxSeq, readSeq, pcA, argA, retA, floorA, returned, issued,
             markReq>>

actorVars == <<acActor, acStr, acParsed, acList, acMRes>>

\* the state of the components modelled further down
authVars == <<cfg, infraEnv, httpReq, httpRes>>

convVars == <<convTable, cvReq, cvRes>>

msgVars == <<msgStore, sndPc, sndReq, sndSeq, sndRow, responses, pullRes>>

gwVars == <<gwSess, gwTable, gwHandled>>

mainVars == <<mainPc, mainSig, listening>>

laterVars == <<actorVars, authVars, convVars, msgVars, gwVars, mainVars>>

\* what a step of the actor conversions, of the auth middleware and of the
\* conversation requests leaves alone
nonActorVars == <<connVars, pageVars, seqVars, authVars, convVars, msgVars,
                  gwVars, mainVars>>
nonAuthVars == <<connVars, pageVars, seqVars, actorVars, convVars, msgVars,
                 gwVars, mainVars>>
nonConvVars == <<connVars, pageVars, actorVars, authVars, msgVars, gwVars,
                 mainVars>>

\* what a step of the connection leaves alone
nonConnVars == <<pageVars, seqVars, laterVars>>

vars == <<connVars, pageVars, seqVars, laterVars>>

(***************************************************************************)
(* NewWebSocketClientConn: open channels, flag clear, write loop started.  *)
(***************************************************************************)
NewWebSocketClientConn ==
    /\ writeChan = <<>>
    /\ chanCloses = [writeChan |-> 0, closeChan |-> 0]
    /\ closed = FALSE
    /\ writeMu = "free"
    /\ closeOnce = "new"
    /\ pcW = [p \in Writers |-> "idle"]
    /\ argW = [p \in Writers |-> NoData]
    /\ retW = [p \in Writers |-> Pending]
    /\ lateW = [p \in Writers |-> FALSE]
    /\ pcC = [q \in Closers |-> "idle"]
    /\ retC = [q \in Closers |-> Pending]
    /\ pcL = "select"
    /\ curMsg = NoData
    /\ sockWriting = {}
    /\ wire = <<>>
    /\ sockCloses = 0
    /\ accepted = <<>>
    /\ nWrites = 0
    /\ nCloses = 0
    /\ closeReturned = FALSE
    /\ panic = "none"
    /\ loopEnd = "none"

\* a closed Go channel
WriteChanClosed == chanCloses.writeChan > 0
CloseChanClosed == chanCloses.closeChan > 0

\* the process has not crashed
Running == panic = "none"

\* close(ch): closing a closed channel panics
CloseChannel(ch) ==
    /\ chanCloses' = [chanCloses EXCEPT ![ch] = @ + 1]
    /\ panic' = IF chanCloses[ch] > 0 THEN "close of closed channel" ELSE panic

(***************************************************************************)
(* WriteMessage                                                            *)
(***************************************************************************)
\* WM_Lock without the mutex: the call goes on whoever holds c.writeMu
WM_Lock_NoMutex(p, d) ==
    /\ Running
    /\ pcW[p] = "idle"
    /\ nWrites < MaxWrites
    /\ nWrites' = nWrites + 1
    /\ pcW' = [pcW EXCEPT ![p] = "check"]
    /\ argW' = [argW EXCEPT ![p] = d]
    /\ retW' = [retW EXCEPT ![p] = Pending]
    /\ lateW' = [lateW EXCEPT ![p] = closeReturned]
    /\ UNCHANGED <<writeChan, chanCloses, closed, writeMu, closeOnce, pcC,
                   retC, pcL, curMsg, sockWriting, wire, sockCloses, accepted,
                   nCloses, closeReturned, panic>>
    /\ UNCHANGED loopEnd
    /\ UNCHANGED nonConnVars

\* a goroutine calls c.WriteMessage(data) and gets past c.writeMu.Lock(); the
\* call has no effect before it holds the mutex
WM_Lock(p, d) ==
    /\ Running
    /\ pcW[p] = "idle"
    /\ nWrites < MaxWrites
    /\ writeMu = "free"
    /\ writeMu' = p
    /\ nWrites' = nWrites + 1
    /\ pcW' = [pcW EXCEPT ![p] = "check"]
    /\ argW' = [argW EXCEPT ![p] = d]
    /\ retW' = [retW EXCEPT ![p] = Pending]
    /\ lateW' = [lateW EXCEPT ![p] = closeReturned]
    /\ UNCHANGED <<writeChan, chanCloses, closed, closeOnce, pcC, retC, pcL,
                   curMsg, sockWriting, wire, sockCloses, accepted, nCloses,
                   closeReturned, panic>>
    /\ UNCHANGED loopEnd
    /\ UNCHANGED nonConnVars

\* WM_Check without the test of c.closed
WM_Check_NoTest(p) ==
    /\ Running
    /\ pcW[p] = "check"
    /\ pcW' = [pcW EXCEPT ![p] = "select"]
    /\ UNCHANGED <<writeChan, chanCloses, closed, writeMu, closeOnce, argW,
                   retW, lateW, pcC, retC, pcL, curMsg, sockWriting, wire,
                   sockCloses, accepted, nWrites, nCloses,
                   closeReturned, panic>>
    /\ UNCHANGED loopEnd
    /\ UNCHANGED nonConnVars

\* if c.closed { return ErrConnClosed }   (the deferred Unlock runs on return)
WM_Check(p) ==
    /\ Running
    /\ pcW[p] = "check"
    /\ IF closed
         THEN /\ retW' = [retW EXCEPT ![p] = ErrConnClosed]
              /\ pcW' = [pcW EXCEPT ![p] = "idle"]
              /\ argW' = [argW EXCEPT ![p] = NoData]
              /\ writeMu' = "free"
         ELSE /\ pcW' = [pcW EXCEPT ![p] = "select"]
              /\ UNCHANGED <<retW, argW, writeMu>>
    /\ UNCHANGED <<writeChan, chanCloses, closed, closeOnce, lateW,
                   pcC, retC, pcL, curMsg, sockWriting, wire, sockCloses,
                   accepted, nWrites, nCloses, closeReturned, panic>>
    /\ UNCHANGED loopEnd
    /\ UNCHANGED nonConnVars

\* WM_Select with a queue that grows instead of a default branch
WM_Select_Unbounded(p) ==
    /\ Running
    /\ pcW[p] = "select"
    /\ pcW' = [pcW EXCEPT ![p] = "idle"]
    /\ argW' = [argW EXCEPT ![p] = NoData]
    /\ writeMu' = "free"
    /\ IF WriteChanClosed
         THEN /\ panic' = "send on closed channel"
              /\ UNCHANGED <<writeChan, accepted, retW>>
         ELSE /\ panic' = panic
              /\ writeChan' = Append(writeChan, argW[p])
              /\ accepted' = Append(accepted, argW[p])
              /\ retW' = [retW EXCEPT ![p] = NoErr]
    /\ UNCHANGED <<chanCloses, closed, closeOnce, lateW, pcC, retC,
                   pcL, curMsg, sockWriting, wire, sockCloses, nWrites,
                   nCloses, closeReturned>>
    /\ UNCHANGED loopEnd
    /\ UNCHANGED nonConnVars

\* WM_Select writing the frame to the socket itself when the queue is full
WM_Select_Direct(p) ==
    /\ Running
    /\ pcW[p] = "select"
    /\ pcW' = [pcW EXCEPT ![p] = "idle"]
    /\ argW' = [argW EXCEPT ![p] = NoData]
    /\ writeMu' = "free"
    /\ IF WriteChanClosed
         THEN /\ panic' = "send on closed channel"
              /\ UNCHANGED <<writeChan, accepted, retW, wire, sockWriting>>
         ELSE /\ panic' = panic
              /\ retW' = [retW EXCEPT ![p] = NoErr]
              /\ accepted' = Append(accepted, argW[p])
              /\ IF Len(writeChan) < WriteChanCap
                   THEN /\ writeChan' = Append(writeChan, argW[p])
                        /\ UNCHANGED <<wire, sockWriting>>
                   ELSE /\ wire' = Append(wire, <<"data", argW[p]>>)
                        /\ sockWriting' = sockWriting \cup {p}
                        /\ UNCHANGED writeChan
    /\ UNCHANGED <<chanCloses, closed, closeOnce, lateW, pcC, retC,
                   pcL, curMsg, sockCloses, nWrites, nCloses,
                   closeReturned>>
    /\ UNCHANGED loopEnd
    /\ UNCHANGED nonConnVars

\* select { case c.writeChan <- data: return nil
\*          default: return ErrWriteChannelFull }
\* A send on a closed channel panics; the deferred Unlock runs on return.
WM_Select(p) ==
    /\ Running
    /\ pcW[p] = "select"
    /\ pcW' = [pcW EXCEPT ![p] = "idle"]
    /\ argW' = [argW EXCEPT ![p] = NoData]
    /\ writeMu' = "free"
    /\ IF WriteChanClosed
         THEN /\ panic' = "send on closed channel"
              /\ UNCHANGED <<writeChan, accepted, retW>>
         ELSE /\ panic' = panic
              /\ IF Len(writeChan) < WriteChanCap
                   THEN /\ writeChan' = Append(writeChan, argW[p])
                        /\ accepted' = Append(accepted, argW[p])
                        /\ retW' = [retW EXCEPT ![p] = NoErr]
                   ELSE /\ retW' = [retW EXCEPT ![p] = ErrWriteChannelFull]
                        /\ UNCHANGED <<writeChan, accepted>>
    /\ UNCHANGED <<chanCloses, closed, closeOnce, lateW, pcC, retC,
                   pcL, curMsg, sockWriting, wire, sockCloses, nWrites,
                   nCloses, closeReturned>>
    /\ UNCHANGED loopEnd
    /\ UNCHANGED nonConnVars

(***************************************************************************)
(* Close                                                                   *)
(***************************************************************************)
\* a goroutine calls c.Close()
Close_Call(q) ==
    /\ Running
    /\ pcC[q] = "idle"
    /\ nCloses < MaxCloses
    /\ nCloses' = nCloses + 1
    /\ pcC' = [pcC EXCEPT ![q] = "once"]
    /\ retC' = [retC EXCEPT ![q] = Pending]
    /\ UNCHANGED <<writeChan, chanCloses, closed, writeMu, closeOnce, pcW,
                   argW, retW, lateW, pcL, curMsg, sockWriting, wire,
                   sockCloses, accepted, nWrites, closeReturned,
                   panic>>
    /\ UNCHANGED loopEnd
    /\ UNCHANGED nonConnVars

\* the value Close returns, with the bookkeeping of a returned call
Close_ReturnNil(q) ==
    /\ pcC' = [pcC EXCEPT ![q] = "idle"]
    /\ retC' = [retC EXCEPT ![q] = NoErr]
    /\ closeReturned' = TRUE

\* Close_Once without the Once: every caller runs the function
Close_Once_Every(q) ==
    /\ Running
    /\ pcC[q] = "once"
    /\ closeOnce' = "running"
    /\ pcC' = [pcC EXCEPT ![q] = "lock"]
    /\ UNCHANGED <<retC, closeReturned>>
    /\ UNCHANGED <<writeChan, chanCloses, closed, writeMu, pcW, argW, retW,
                   lateW, pcL, curMsg, sockWriting, wire, sockCloses,
                   accepted, nWrites, nCloses, panic>>
    /\ UNCHANGED loopEnd
    /\ UNCHANGED nonConnVars

\* c.closeOnce.Do(func() {...}): the first caller runs the function, a caller
\* arriving while it runs waits for it, a caller arriving later skips it.
Close_Once(q) ==
    /\ Running
    /\ pcC[q] = "once"
    /\ \/ /\ closeOnce = "new"
          /\ closeOnce' = "running"
          /\ pcC' = [pcC EXCEPT ![q] = "lock"]
          /\ UNCHANGED <<retC, closeReturned>>
       \/ /\ closeOnce = "done"
          /\ Close_ReturnNil(q)
          /\ UNCHANGED closeOnce
    /\ UNCHANGED <<writeChan, chanCloses, closed, writeMu, pcW, argW, retW,
                   lateW, pcL, curMsg, sockWriting, wire, sockCloses,
                   accepted, nWrites, nCloses, panic>>
    /\ UNCHANGED loopEnd
    /\ UNCHANGED nonConnVars

\* c.writeMu.Lock()
Close_Lock(q) ==
    /\ Running
    /\ pcC[q] = "lock"
    /\ writeMu = "free"
    /\ writeMu' = q
    /\ pcC' = [pcC EXCEPT ![q] = "crit"]
    /\ UNCHANGED <<writeChan, chanCloses, closed, closeOnce, pcW, argW, retW,
                   lateW, retC, pcL, curMsg, sockWriting, wire, sockCloses,
                   accepted, nWrites, nCloses, closeReturned, panic>>
    /\ UNCHANGED loopEnd
    /\ UNCHANGED nonConnVars

\* c.closed = true; close(c.writeChan); c.writeMu.Unlock()
Close_Crit(q) ==
    /\ Running
    /\ pcC[q] = "crit"
    /\ closed' = TRUE
    /\ CloseChannel("writeChan")
    /\ writeMu' = "free"
    /\ pcC' = [pcC EXCEPT ![q] = "closeChan"]
    /\ UNCHANGED <<writeChan, closeOnce, pcW, argW, retW, lateW, retC, pcL,
                   curMsg, sockWriting, wire, sockCloses, accepted, nWrites,
                   nCloses, closeReturned>>
    /\ UNCHANGED loopEnd
    /\ UNCHANGED nonConnVars

\* close(c.closeChan)
Close_CloseChan(q) ==
    /\ Running
    /\ pcC[q] = "closeChan"
    /\ CloseChannel("closeChan")
    /\ pcC' = [pcC EXCEPT ![q] = "ret"]
    /\ UNCHANGED <<writeChan, closed, writeMu, closeOnce, pcW, argW, retW,
                   lateW, retC, pcL, curMsg, sockWriting, wire, sockCloses,
                   accepted, nWrites, nCloses, closeReturned>>
    /\ UNCHANGED loopEnd
    /\ UNCHANGED nonConnVars

\* the function passed to Do returns, the Once is done; return nil
Close_Return(q) ==
    /\ Running
    /\ pcC[q] = "ret"
    /\ closeOnce' = "done"
    /\ Close_ReturnNil(q)
    /\ UNCHANGED <<writeChan, chanCloses, closed, writeMu, pcW, argW, retW,
                   lateW, pcL, curMsg, sockWriting, wire, sockCloses,
                   accepted, nWrites, nCloses, panic>>
    /\ UNCHANGED loopEnd
    /\ UNCHANGED nonConnVars

(***************************************************************************)
(* writeLoop                                                               *)
(***************************************************************************)
\* frames on the socket
DataFrame(d) == <<"data", d>>
CloseFrame == <<"close", "">>

\* a receive from a channel with buffered messages: the receiver gets the
\* oldest one, the others stay buffered in their order
Recv_Newest(ch) == [msg |-> ch[Len(ch)], rest |-> SubSeq(ch, 1, Len(ch) - 1)]
Recv(ch) == [msg |-> Head(ch), rest |-> Tail(ch)]

\* c.conn.WriteMessage(...) begins / ends on behalf of goroutine g
SockWriteBegin(g) == sockWriting' = sockWriting \cup {g}
SockWriteEnd(g) == sockWriting' = sockWriting \ {g}

\* case message, ok := <-c.writeChan: a buffered message is received (also
\* from a closed channel, until it is drained) and its write begins
Loop_Recv ==
    /\ Running
    /\ pcL = "select"
    /\ Len(writeChan) > 0
    /\ curMsg' = Recv(writeChan).msg
    /\ writeChan' = Recv(writeChan).rest
    /\ pcL' = "writeData"
    /\ SockWriteBegin(WriteLoopId)
    /\ UNCHANGED <<chanCloses, closed, writeMu, closeOnce, pcW, argW, retW,
                   lateW, pcC, retC, wire, sockCloses, accepted, nWrites,
                   nCloses, closeReturned, panic>>
    /\ UNCHANGED loopEnd
    /\ UNCHANGED nonConnVars

\* c.conn.WriteMessage(websocket.BinaryMessage, message) returns: the frame
\* is on the wire, or the write failed and the loop returns
Loop_WriteData ==
    /\ Running
    /\ pcL = "writeData"
    /\ SockWriteEnd(WriteLoopId)
    /\ \/ /\ wire' = Append(wire, DataFrame(curMsg))
          /\ pcL' = "select"
          /\ UNCHANGED loopEnd
       \/ /\ pcL' = "exit"
          /\ loopEnd' = "writeError"
          /\ UNCHANGED wire
    /\ curMsg' = NoData
    /\ UNCHANGED <<writeChan, chanCloses, closed, writeMu, closeOnce, pcW,
                   argW, retW, lateW, pcC, retC, sockCloses, accepted,
                   nWrites, nCloses, closeReturned, panic>>
    /\ UNCHANGED nonConnVars

\* case message, ok := <-c.writeChan with !ok: the channel is closed and
\* drained; the write of the close frame begins
Loop_RecvClosed ==
    /\ Running
    /\ pcL = "select"
    /\ Len(writeChan) = 0
    /\ WriteChanClosed
    /\ pcL' = "writeClose"
    /\ SockWriteBegin(WriteLoopId)
    /\ UNCHANGED <<writeChan, chanCloses, closed, writeMu, closeOnce, pcW,
                   argW, retW, lateW, pcC, retC, curMsg, wire, sockCloses,
                   accepted, nWrites, nCloses, closeReturned, panic>>
    /\ UNCHANGED loopEnd
    /\ UNCHANGED nonConnVars

\* _ = c.conn.WriteMessage(websocket.CloseMessage, []byte{}); return
Loop_WriteClose ==
    /\ Running
    /\ pcL = "writeClose"
    /\ SockWriteEnd(WriteLoopId)
    /\ \/ /\ wire' = Append(wire, CloseFrame)
          /\ loopEnd' = "closed"
       \/ /\ UNCHANGED wire
          /\ loopEnd' = "closeError"
    /\ pcL' = "exit"
    /\ UNCHANGED <<writeChan, chanCloses, closed, writeMu, closeOnce, pcW,
                   argW, retW, lateW, pcC, retC, curMsg, sockCloses, accepted,
                   nWrites, nCloses, closeReturned, panic>>
    /\ UNCHANGED nonConnVars

\* case <-ticker.C: the write of a ping begins
Loop_Tick ==
    /\ Running
    /\ pcL = "select"
    /\ pcL' = "ping"
    /\ SockWriteBegin(WriteLoopId)
    /\ UNCHANGED <<writeChan, chanCloses, closed, writeMu, closeOnce, pcW,
                   argW, retW, lateW, pcC, retC, curMsg, wire, sockCloses,
                   accepted, nWrites, nCloses, closeReturned, panic>>
    /\ UNCHANGED loopEnd
    /\ UNCHANGED nonConnVars

\* c.conn.WriteMessage(websocket.PingMessage, nil) returns, with or without
\* an error; a ping carries no payload and is not recorded in wire
Loop_WritePing ==
    /\ Running
    /\ pcL = "ping"
    /\ SockWriteEnd(WriteLoopId)
    /\ \/ /\ pcL' = "select"
          /\ UNCHANGED loopEnd
       \/ /\ pcL' = "exit"
          /\ loopEnd' = "pingError"
    /\ UNCHANGED wire
    /\ UNCHANGED <<writeChan, chanCloses, closed, writeMu, closeOnce, pcW,
                   argW, retW, lateW, pcC, retC, curMsg, sockCloses, accepted,
                   nWrites, nCloses, closeReturned, panic>>
    /\ UNCHANGED nonConnVars

\* case <-c.closeChan: return
Loop_CloseSignal ==
    /\ Running
    /\ pcL = "select"
    /\ CloseChanClosed
    /\ pcL' = "exit"
    /\ loopEnd' = "closeSignal"
    /\ UNCHANGED <<writeChan, chanCloses, closed, writeMu, closeOnce, pcW,
                   argW, retW, lateW, pcC, retC, curMsg, sockWriting, wire,
                   sockCloses, accepted, nWrites, nCloses,
                   closeReturned, panic>>
    /\ UNCHANGED nonConnVars

\* deferred: ticker.Stop(); _ = c.conn.Close()
Loop_Exit ==
    /\ Running
    /\ pcL = "exit"
    /\ sockCloses' = sockCloses + 1
    /\ pcL' = "done"
    /\ UNCHANGED <<writeChan, chanCloses, closed, writeMu, closeOnce, pcW,
                   argW, retW, lateW, pcC, retC, curMsg, sockWriting, wire,
                   accepted, nWrites, nCloses, closeReturned, panic>>
    /\ UNCHANGED loopEnd
    /\ UNCHANGED nonConnVars

(***************************************************************************)
(* The connection specification                                            *)
(***************************************************************************)
\* None stands for an absent request, result or record
None == <<>>

\* users and conversations of the sequence rows, goroutines allocating
SeqUsers == {"u1", "u2"}
SeqConvs == {"c1"}
Allocators == {"a1", "a2"}

\* the sequence rows before any message: no row, read as zero
SeqInit ==
    /\ maxSeq = [c \in SeqConvs |-> 0]
    /\ readSeq = [u \in SeqUsers |-> [c \in SeqConvs |-> 0]]
    /\ pcA = [a \in Allocators |-> "idle"]
    /\ argA = [a \in Allocators |-> None]
    /\ retA = [a \in Allocators |-> None]
    /\ floorA = [a \in Allocators |-> 0]
    /\ returned = [c \in SeqConvs |-> 0]
    /\ issued = [c \in SeqConvs |-> <<>>]
    /\ markReq = [u \in SeqUsers |-> None]

\* no actor id converted yet
ActorIdle ==
    /\ acActor = None
    /\ acStr = <<>>
    /\ acParsed = None
    /\ acList = <<>>
    /\ acMRes = None

\* no request in the middleware chain; the configuration of the tests
AuthIdle ==
    /\ cfg = [JWT |-> [Secret |-> "s1"],
              ExternalJWT |-> [Enabled |-> FALSE, Secret |-> "s2",
                               DefaultPlatformId |-> 5],
              InternalAuth |-> [Enabled |-> FALSE, Secret |-> <<>>,
                                AllowedServices |-> <<>>,
                                MaxSkewSeconds |-> 0]]
    /\ infraEnv = <<>>
    /\ httpReq = None
    /\ httpRes = None

ConvOwners == {"u1", "u2"}
ConvNames == {"c1", "c2"}

\* the conversations rows before any update: u2 has no row for c2
ConvIdle ==
    /\ convTable = [o \in ConvOwners |-> [c \in ConvNames |->
                        IF o = "u2" /\ c = "c2" THEN <<>>
                        ELSE [RecvMsgOpt |-> 0, IsPinned |-> FALSE]]]
    /\ cvReq = <<>>
    /\ cvRes = <<>>

Senders == {"s1", "s2"}

\* no message sent yet
MsgIdle ==
    /\ msgStore = {}
    /\ sndPc = [p \in Senders |-> "idle"]
    /\ sndReq = [p \in Senders |-> <<>>]
    /\ sndSeq = [p \in Senders |-> 0]
    /\ sndRow = [p \in Senders |-> <<>>]
    /\ responses = <<>>
    /\ pullRes = <<>>

GwUsers == {"A", "B"}
GwPlatforms == {1, 5}

\* no connection made yet
GwIdle ==
    /\ gwSess = <<>>
    /\ gwTable = [u \in GwUsers |-> [pl \in GwPlatforms |-> 0]]
    /\ gwHandled = 0

\* main has started the servers and waits for a signal
MainServing ==
    /\ mainPc = "serving"
    /\ mainSig = ""
    /\ listening = TRUE

LaterIdle ==
    ActorIdle /\ AuthIdle /\ ConvIdle /\ MsgIdle /\ GwIdle /\ MainServing

\* the conversation list is not in use
PageIdle ==
    /\ convs = {}
    /\ pgMode = "off"
    /\ pgLimit = 0
    /\ pgCursor = <<>>
    /\ pgPages = <<>>
    /\ lastReq = <<>>
    /\ lastRes = <<>>

InitConn == NewWebSocketClientConn /\ PageIdle /\ SeqInit /\ LaterIdle

NextConn ==
    \/ \E p \in Writers, d \in Payloads : WM_Lock(p, d)
    \/ \E p \in Writers : WM_Check(p)
    \/ \E p \in Writers : WM_Select(p)
    \/ \E q \in Closers : Close_Call(q)
    \/ \E q \in Closers : Close_Once(q)
    \/ \E q \in Closers : Close_Lock(q)
    \/ \E q \in Closers : Close_Crit(q)
    \/ \E q \in Closers : Close_CloseChan(q)
    \/ \E q \in Closers : Close_Return(q)
    \/ Loop_Recv
    \/ Loop_WriteData
    \/ Loop_RecvClosed
    \/ Loop_WriteClose
    \/ Loop_Tick
    \/ Loop_WritePing
    \/ Loop_CloseSignal
    \/ Loop_Exit


SpecConn == InitConn /\ [][NextConn]_vars

\* payloads of the data frames of a frame sequence, in order
DataPayloads(w) ==
    LET ds == SelectSeq(w, LAMBDA f : f[1] = "data")
    IN  [i \in 1..Len(ds) |-> ds[i][2]]

IsPrefix(s, t) == Len(s) <= Len(t) /\ \A i \in 1..Len(s) : s[i] = t[i]

(***************************************************************************)
(* Properties of the connection                                            *)
(***************************************************************************)
\* the step is the return of a WriteMessage call of p
WM_Returns(p) == pcW[p] \in {"check", "select"} /\ pcW'[p] = "idle"

\* C1: the payloads of the data frames on the socket are, in order, a prefix
\* of the payloads WriteMessage accepted (returned nil for), in acceptance
\* order: nothing reordered, duplicated or written without being enqueued.
C1_FifoPrefix == IsPrefix(DataPayloads(wire), accepted)

\* two different payloads are on the wire in their acceptance order while a
\* third accepted frame is still pending
C1_Witness ==
    /\ Len(DataPayloads(wire)) >= 2
    /\ DataPayloads(wire)[1] # DataPayloads(wire)[2]
    /\ Len(accepted) > Len(DataPayloads(wire))

\* C2: the queue never holds more than its capacity; the select of
\* WriteMessage is always able to complete (it has a default branch); a
\* WriteMessage that finds the open channel full returns ErrWriteChannelFull
\* and leaves the queue as it was.
C2_NonBlockingBounded ==
    /\ [](Len(writeChan) <= WriteChanCap)
    /\ [](\A p \in Writers : (Running /\ pcW[p] = "select") => ENABLED WM_Select(p))
    /\ [][\A p \in Writers :
            (WM_Returns(p) /\ pcW[p] = "select" /\ ~WriteChanClosed
                /\ Len(writeChan) = WriteChanCap)
            => /\ retW'[p] = ErrWriteChannelFull
               /\ writeChan' = writeChan
               /\ accepted' = accepted]_vars

\* a call was rejected with ErrWriteChannelFull and the queue is full
C2_Witness ==
    /\ Len(writeChan) = WriteChanCap
    /\ \E p \in Writers : retW[p] = ErrWriteChannelFull

\* C3: a WriteMessage call that began after some Close call had returned
\* returns ErrConnClosed and enqueues nothing.
C3_WriteAfterClose ==
    [][\A p \in Writers :
         (WM_Returns(p) /\ lateW[p])
         => /\ retW'[p] = ErrConnClosed
            /\ writeChan' = writeChan
            /\ accepted' = accepted]_vars

\* a call issued after Close returned has come back with ErrConnClosed
C3_Witness == \E p \in Writers : lateW[p] /\ retW[p] = ErrConnClosed

\* C4: however many Close calls are made and however they interleave, each
\* channel is closed at most once and no close panics, every call that has
\* returned returned nil, once a call has returned both channels are closed
\* exactly once, and once the Once is done no step closes a channel or
\* changes the closed flag.
C4_CloseIdempotent ==
    /\ [](/\ chanCloses.writeChan <= 1
          /\ chanCloses.closeChan <= 1
          /\ panic # "close of closed channel"
          /\ \A q \in Closers : retC[q] \in {Pending, NoErr}
          /\ closeReturned => (chanCloses.writeChan = 1 /\ chanCloses.closeChan = 1 /\ closed))
    /\ [][closeOnce = "done" => UNCHANGED <<chanCloses, closed, closeOnce>>]_vars

\* two Close calls have returned nil, the second without running the function
C4_Witness ==
    /\ nCloses >= 2
    /\ \A q \in Closers : pcC[q] = "idle" /\ retC[q] = NoErr
    /\ chanCloses = [writeChan |-> 1, closeChan |-> 1]

\* C5: only the write loop ever has a socket write in progress, so at most
\* one is in progress at a time, and every frame that appears on the wire is
\* put there by a step of the write loop.
C5_SingleWriter ==
    /\ [](/\ sockWriting \subseteq {WriteLoopId}
          /\ Cardinality(sockWriting) <= 1
          /\ (WriteLoopId \in sockWriting) <=> (pcL \in {"writeData", "ping", "writeClose"}))
    /\ [][wire' # wire => (pcL \in {"writeData", "ping", "writeClose"} /\ pcL' # pcL)]_vars

\* the write loop is writing a frame while a WriteMessage call holds the
\* mutex on a full queue
C5_Witness ==
    /\ sockWriting = {WriteLoopId}
    /\ Len(writeChan) = WriteChanCap
    /\ \E p \in Writers : pcW[p] = "select"

(***************************************************************************)
(* Conversation list: ConversationService.GetUserConversationsPage over    *)
(* ConversationRepo.GetUserConversationsWithSeqPage.                       *)
(*                                                                         *)
(* A row of the table is [owner_id, conversation_id, updated_at].          *)
(* Conversation ids are strings in the source, compared by the database;   *)
(* the model takes positive integers for them and EmptyId for "".          *)
(***************************************************************************)
\* the user whose list is read, and another owner of rows
Caller == "u1"
OtherOwner == "u2"
Owners == {Caller, OtherOwner}

\* the empty conversation id "" and the zero updated_at of an absent cursor
EmptyId == 0
NoUpdatedAt == 0

ConvIds == 1..MaxConvs
Times == 1..MaxTime

\* the table with the caller's conversations f (id -> updated_at, 0: none)
\* and the other owner's conversations g
TableOf(f, g) ==
    {[owner_id |-> Caller, conversation_id |-> i, updated_at |-> f[i]] :
        i \in {j \in DOMAIN f : f[j] # 0}}
    \cup
    {[owner_id |-> OtherOwner, conversation_id |-> i, updated_at |-> g[i]] :
        i \in {j \in DOMAIN g : g[j] # 0}}

\* every table over ConvIds and Times (the other owner's rows all carry the
\* latest time)
SmallTables ==
    {TableOf(f, g) : f \in [ConvIds -> {0} \cup Times],
                     g \in [ConvIds -> {0, MaxTime}]}

\* a table with n conversations of the caller, updated_at repeating so that
\* rows tie, and one row of the other owner
LargeTable(n) ==
    TableOf([i \in 1..n |-> 1 + (i % MaxTime)], [i \in 1..1 |-> MaxTime])

\* tables long enough for the default limit and the maximum limit to cut
Tables ==
    SmallTables \cup {LargeTable(DefaultConversationListLimit + 1),
                      LargeTable(MaxConversationListLimit + 1)}

\* limits a request may carry
Limits == {-1, 0, 1, 2, 3, DefaultConversationListLimit,
           MaxConversationListLimit, MaxConversationListLimit + 1}

\* well-formed cursors a request may carry, also ones beyond every row
Cursors == [updated_at : 1..(MaxTime + 1), conversation_id : 1..(MaxConvs + 1)]

\* ORDER BY updated_at DESC, conversation_id DESC: a comes before b
RowBefore(a, b) ==
    \/ a.updated_at > b.updated_at
    \/ a.updated_at = b.updated_at /\ a.conversation_id > b.conversation_id

\* the cursor predicate letting the cursor's own row through again
AfterCursor_Inclusive(r, cu, ci) ==
    \/ r.updated_at < cu
    \/ r.updated_at = cu /\ r.conversation_id <= ci

\* the cursor predicate: the row lies after the cursor (cu, ci) in that order
AfterCursor(r, cu, ci) ==
    \/ r.updated_at < cu
    \/ r.updated_at = cu /\ r.conversation_id < ci

\* the first k rows of S in the order of RowBefore
RECURSIVE FirstRows(_, _)
FirstRows(S, k) ==
    IF k <= 0 \/ S = {} THEN <<>>
    ELSE LET top == CHOOSE r \in S : \A x \in S : x = r \/ RowBefore(r, x)
         IN  <<top>> \o FirstRows(S \ {top}, k - 1)

\* the rows of the owner that a request with cursor (cu, ci) selects
SelectedRows(userId, cu, ci) ==
    LET own == {r \in convs : r.owner_id = userId}
    IN  IF cu > NoUpdatedAt /\ ci # EmptyId
          THEN {r \in own : AfterCursor(r, cu, ci)}
          ELSE own

\* ConversationRepo.GetUserConversationsWithSeqPage
GetUserConversationsWithSeqPage(userId, limit, cu, ci) ==
    FirstRows(SelectedRows(userId, cu, ci), limit)

\* buildConversationInfos: one ConversationInfo per row, in the rows' order
buildConversationInfos(rows) ==
    [i \in 1..Len(rows) |->
        [conversation_id |-> rows[i].conversation_id,
         updated_at |-> rows[i].updated_at]]

\* a nil *ConversationListCursor is <<>>, a cursor c is <<c>>
NilCursor == <<>>
CursorOf(row) ==
    <<[updated_at |-> row.updated_at, conversation_id |-> row.conversation_id]>>

\* the result of the page computed from the fetched rows under limit lim
PageResult(fetched, lim) ==
    LET hasMore == Len(fetched) > lim
        page == IF hasMore THEN SubSeq(fetched, 1, lim) ELSE fetched
    IN  [err |-> NoErr,
         list |-> buildConversationInfos(page),
         has_more |-> hasMore,
         next_cursor |-> IF hasMore /\ Len(page) > 0
                           THEN CursorOf(page[Len(page)])
                           ELSE NilCursor]

\* GetUserConversationsPage fetching limit rows instead of limit+1
GetUserConversationsPage_NoExtraRow(userId, limit, cu, ci) ==
    LET l1 == IF limit <= 0 THEN DefaultConversationListLimit ELSE limit
        l2 == IF l1 > MaxConversationListLimit
                THEN MaxConversationListLimit ELSE l1
    IN  PageResult(GetUserConversationsWithSeqPage(userId, l2, cu, ci), l2)

\* GetUserConversationsPage without the clamp to MaxConversationListLimit
GetUserConversationsPage_NoClamp(userId, limit, cu, ci) ==
    LET l1 == IF limit <= 0 THEN DefaultConversationListLimit ELSE limit
    IN  PageResult(GetUserConversationsWithSeqPage(userId, l1 + 1, cu, ci), l1)

\* ConversationService.GetUserConversationsPage when the repository answers
GetUserConversationsPage(userId, limit, cu, ci) ==
    LET l1 == IF limit <= 0 THEN DefaultConversationListLimit ELSE limit
        l2 == IF l1 > MaxConversationListLimit
                THEN MaxConversationListLimit ELSE l1
    IN  PageResult(GetUserConversationsWithSeqPage(userId, l2 + 1, cu, ci), l2)

\* ConversationService.GetUserConversationsPage when the repository fails
ErrInternalServer == "ErrInternalServer"
PageFailure ==
    [err |-> ErrInternalServer, list |-> <<>>, has_more |-> FALSE,
     next_cursor |-> NilCursor]

\* the cursor arguments a request carries for an optional cursor
CursorUpdatedAt(c) == IF c = NilCursor THEN NoUpdatedAt ELSE c[1].updated_at
CursorConversationId(c) == IF c = NilCursor THEN EmptyId ELSE c[1].conversation_id

Request(k, c) == [user_id |-> Caller, limit |-> k, cursor |-> c]

\* one call of the service for the caller, with its outcome recorded
Call(k, c, res) ==
    /\ lastReq' = Request(k, c)
    /\ lastRes' = res

\* the paging client takes a page: it appends the list and keeps the cursor,
\* or stops when none came back
TakePage(res) ==
    /\ pgPages' = pgPages \o res.list
    /\ pgCursor' = res.next_cursor
    /\ pgMode' = IF res.next_cursor = NilCursor THEN "done" ELSE "paging"

\* the client asks for the first page with limit k and no cursor
Page_First(k) ==
    /\ pgMode = "start"
    /\ pgLimit' = k
    /\ LET res == GetUserConversationsPage(Caller, k, NoUpdatedAt, EmptyId)
       IN  Call(k, NilCursor, res) /\ TakePage(res)
    /\ UNCHANGED <<convs, connVars, seqVars, laterVars>>

\* the client asks for the next page with the cursor it was given
Page_Next ==
    /\ pgMode = "paging"
    /\ LET res == GetUserConversationsPage(Caller, pgLimit,
                      CursorUpdatedAt(pgCursor), CursorConversationId(pgCursor))
       IN  Call(pgLimit, pgCursor, res) /\ TakePage(res)
    /\ UNCHANGED <<convs, pgLimit, connVars, seqVars, laterVars>>

\* the repository fails: the service returns ErrInternalServer and the
\* client gives up
Page_Fail ==
    /\ pgMode \in {"start", "paging"}
    /\ Call(pgLimit, pgCursor, PageFailure)
    /\ pgMode' = "failed"
    /\ UNCHANGED <<convs, pgLimit, pgCursor, pgPages, connVars, seqVars, laterVars>>

\* a single request with any limit and any well-formed cursor
Page_Probe(k, c) ==
    /\ pgMode = "start"
    /\ Call(k, <<c>>, GetUserConversationsPage(Caller, k, c.updated_at,
                                               c.conversation_id))
    /\ pgMode' = "probed"
    /\ UNCHANGED <<convs, pgLimit, pgCursor, pgPages, connVars, seqVars, laterVars>>

InitPage ==
    /\ NewWebSocketClientConn
    /\ SeqInit
    /\ LaterIdle
    /\ convs \in Tables
    /\ pgMode = "start"
    /\ pgLimit = 0
    /\ pgCursor = NilCursor
    /\ pgPages = <<>>
    /\ lastReq = <<>>
    /\ lastRes = <<>>

NextPage ==
    \/ \E k \in Limits : Page_First(k)
    \/ Page_Next
    \/ Page_Fail
    \/ \E k \in Limits, c \in Cursors : Page_Probe(k, c)

SpecPage == InitPage /\ [][NextPage]_vars

(***************************************************************************)
(* Properties of the conversation list                                     *)
(***************************************************************************)
\* the ConversationInfo of a row
InfoOf(r) == [conversation_id |-> r.conversation_id, updated_at |-> r.updated_at]

\* the conversations of the caller, as the list shows them
OwnInfos == {InfoOf(r) : r \in {x \in convs : x.owner_id = Caller}}

\* the elements of a sequence
Range(q) == {q[i] : i \in 1..Len(q)}

\* a sequence in strict (updated_at DESC, conversation_id DESC) order
Descending(q) == \A i \in 1..(Len(q) - 1) : RowBefore(q[i], q[i + 1])

EffectiveLimit(k) ==
    LET d == IF k <= 0 THEN 20 ELSE k
    IN  IF d > 100 THEN 100 ELSE d

\* the caller's conversations a request has still to show: all of them
\* without a cursor, those after the cursor with one
Remaining(req) ==
    IF req.cursor = NilCursor THEN OwnInfos
    ELSE {x \in OwnInfos :
            AfterCursor(x, req.cursor[1].updated_at, req.cursor[1].conversation_id)}

\* C7: a successful GetUserConversationsPage returns the first L of the
\* remaining rows, L being the limit clamped to at most 100 and 20 when not
\* positive; has_more is true exactly when rows remain beyond the page;
\* next_cursor is present exactly when has_more is, and is then the
\* (updated_at, conversation_id) of the last returned row; with nothing
\* remaining the page is empty and carries no cursor.
C7_PageShape ==
    (lastRes # <<>> /\ lastRes.err = NoErr) =>
        LET L == EffectiveLimit(lastReq.limit)
            rem == Remaining(lastReq)
            list == lastRes.list
        IN  /\ Len(list) <= L
            /\ Len(list) = IF Cardinality(rem) < L THEN Cardinality(rem) ELSE L
            /\ Descending(list)
            /\ Range(list) \subseteq rem
            /\ \A x \in rem \ Range(list) :
                  \A i \in 1..Len(list) : RowBefore(list[i], x)
            /\ lastRes.has_more <=> (rem \ Range(list) # {})
            /\ (lastRes.next_cursor # NilCursor) <=> lastRes.has_more
            /\ lastRes.has_more =>
                  lastRes.next_cursor = <<[updated_at |-> list[Len(list)].updated_at,
                        conversation_id |-> list[Len(list)].conversation_id]>>
            /\ rem = {} => (list = <<>> /\ lastRes.next_cursor = NilCursor)

\* a request with a limit above the maximum got exactly 100 rows, has_more
\* and a cursor
C7_Witness ==
    /\ lastRes # <<>>
    /\ lastRes.err = NoErr
    /\ lastReq.limit > MaxConversationListLimit
    /\ Len(lastRes.list) = MaxConversationListLimit
    /\ lastRes.has_more
    /\ lastRes.next_cursor # NilCursor

(***************************************************************************)
(* Sequence rows: the allocator (allocate on ConversationSeq.max_seq) and  *)
(* ConversationService.MarkRead over SeqRepo.UpdateReadSeq.                *)
(***************************************************************************)
Max2(a, b) == IF a >= b THEN a ELSE b
Min2(a, b) == IF a <= b THEN a ELSE b

\* the numbers first..last in order
Numbers(first, last) == [i \in 1..(last - first + 1) |-> first + i - 1]

\* seq values a mark_read request may carry: also negative and above max_seq
ClientSeqs == (-1)..(MaxSeq + 1)

\* a goroutine calls allocate(conversation_id, n)
Alloc_Call(a, c) ==
    /\ pcA[a] = "idle"
    /\ pcA' = [pcA EXCEPT ![a] = "called"]
    /\ argA' = [argA EXCEPT ![a] = c]
    /\ floorA' = [floorA EXCEPT ![a] = returned[c]]
    /\ UNCHANGED <<maxSeq, readSeq, retA, returned, issued, markReq>>
    /\ UNCHANGED <<connVars, pageVars, laterVars>>

\* the atomic counter step of allocate, adding one number less than asked
Alloc_Incr_Short(a, n) ==
    /\ pcA[a] = "called"
    /\ maxSeq[argA[a]] + n <= MaxSeq
    /\ LET c == argA[a]
           first == maxSeq[c] + 1
           last == maxSeq[c] + n
       IN  /\ maxSeq' = [maxSeq EXCEPT ![c] = @ + n - 1]
           /\ retA' = [retA EXCEPT ![a] = [first |-> first, last |-> last]]
           /\ issued' = [issued EXCEPT ![c] = @ \o Numbers(first, last)]
    /\ pcA' = [pcA EXCEPT ![a] = "got"]
    /\ UNCHANGED <<readSeq, argA, floorA, returned, markReq>>
    /\ UNCHANGED <<connVars, pageVars, laterVars>>

\* the atomic counter step of allocate: max_seq grows by n in one operation
\* and the call is given the n numbers above the old value
Alloc_Incr(a, n) ==
    /\ pcA[a] = "called"
    /\ maxSeq[argA[a]] + n <= MaxSeq
    /\ LET c == argA[a]
           first == maxSeq[c] + 1
           last == maxSeq[c] + n
       IN  /\ maxSeq' = [maxSeq EXCEPT ![c] = last]
           /\ retA' = [retA EXCEPT ![a] = [first |-> first, last |-> last]]
           /\ issued' = [issued EXCEPT ![c] = @ \o Numbers(first, last)]
    /\ pcA' = [pcA EXCEPT ![a] = "got"]
    /\ UNCHANGED <<readSeq, argA, floorA, returned, markReq>>
    /\ UNCHANGED <<connVars, pageVars, laterVars>>

\* allocate fails (ErrTransient): no number is given, the counter is untouched
Alloc_Fail(a) ==
    /\ pcA[a] = "called"
    /\ pcA' = [pcA EXCEPT ![a] = "idle"]
    /\ argA' = [argA EXCEPT ![a] = None]
    /\ floorA' = [floorA EXCEPT ![a] = 0]
    /\ UNCHANGED <<maxSeq, readSeq, retA, returned, issued, markReq>>
    /\ UNCHANGED <<connVars, pageVars, laterVars>>

\* allocate returns its range to the caller
Alloc_Return(a) ==
    /\ pcA[a] = "got"
    /\ returned' = [returned EXCEPT ![argA[a]] = Max2(@, retA[a].last)]
    /\ pcA' = [pcA EXCEPT ![a] = "idle"]
    /\ argA' = [argA EXCEPT ![a] = None]
    /\ retA' = [retA EXCEPT ![a] = None]
    /\ floorA' = [floorA EXCEPT ![a] = 0]
    /\ UNCHANGED <<maxSeq, readSeq, issued, markReq>>
    /\ UNCHANGED <<connVars, pageVars, laterVars>>

\* SeqRepo.UpdateReadSeq: read_seq = max(current, min(seq, max_seq))
UpdateReadSeq(userId, conversationId, seq) ==
    [readSeq EXCEPT ![userId][conversationId] =
        Max2(@, Min2(seq, maxSeq[conversationId]))]

\* MarkRead storing the request's seq as it comes
MarkRead_Overwrite(userId, conversationId, seq) ==
    [readSeq EXCEPT ![userId][conversationId] = seq]

\* MarkRead raising read_seq to the request's seq whatever max_seq is
MarkRead_Unclamped(userId, conversationId, seq) ==
    [readSeq EXCEPT ![userId][conversationId] = Max2(@, seq)]

\* ConversationService.MarkRead when the repository answers: the read_seq
\* rows after the call
MarkRead(userId, conversationId, seq) ==
    UpdateReadSeq(userId, conversationId, seq)

\* ConversationHandler.MarkRead receives a request of user u
MarkRead_Request(u, c, s) ==
    /\ IF markReq[u] = None THEN TRUE ELSE markReq[u].state = "served"
    /\ markReq' = [markReq EXCEPT ![u] =
                     [conversation_id |-> c, read_seq |-> s, state |-> "pending"]]
    /\ UNCHANGED <<maxSeq, readSeq, pcA, argA, retA, floorA, returned, issued>>
    /\ UNCHANGED <<connVars, pageVars, laterVars>>

\* the handler calls the service, the service the repository, and answers
\* success
MarkRead_Serve(u) ==
    /\ IF markReq[u] = None THEN FALSE ELSE markReq[u].state = "pending"
    /\ readSeq' = MarkRead(u, markReq[u].conversation_id, markReq[u].read_seq)
    /\ markReq' = [markReq EXCEPT ![u].state = "served"]
    /\ UNCHANGED <<maxSeq, pcA, argA, retA, floorA, returned, issued>>
    /\ UNCHANGED <<connVars, pageVars, laterVars>>

\* the repository fails: the service answers ErrInternalServer, nothing is
\* stored
MarkRead_Fail(u) ==
    /\ IF markReq[u] = None THEN FALSE ELSE markReq[u].state = "pending"
    /\ markReq' = [markReq EXCEPT ![u] = None]
    /\ UNCHANGED <<maxSeq, readSeq, pcA, argA, retA, floorA, returned, issued>>
    /\ UNCHANGED <<connVars, pageVars, laterVars>>

InitSeq == NewWebSocketClientConn /\ PageIdle /\ SeqInit /\ LaterIdle

NextSeq ==
    \/ \E a \in Allocators, c \in SeqConvs : Alloc_Call(a, c)
    \/ \E a \in Allocators, n \in 1..MaxBatch : Alloc_Incr(a, n)
    \/ \E a \in Allocators : Alloc_Fail(a)
    \/ \E a \in Allocators : Alloc_Return(a)
    \/ \E u \in SeqUsers, c \in SeqConvs, s \in ClientSeqs : MarkRead_Request(u, c, s)
    \/ \E u \in SeqUsers : MarkRead_Serve(u)
    \/ \E u \in SeqUsers : MarkRead_Fail(u)

SpecSeq == InitSeq /\ [][NextSeq]_vars

(***************************************************************************)
(* Properties of the sequence rows.                                        *)
(***************************************************************************)
\* this step answers the pending mark_read request of user u with success
MarkRead_Served(u) ==
    /\ IF markReq[u] = None THEN FALSE ELSE markReq[u].state = "pending"
    /\ IF markReq'[u] = None THEN FALSE ELSE markReq'[u].state = "served"

\* a step that lowers no read_seq, and changes none when it answers a
\* mark_read whose seq is below the stored read_seq
ReadSeqKept ==
    /\ \A u \in SeqUsers, c \in SeqConvs : readSeq'[u][c] >= readSeq[u][c]
    /\ \A u \in SeqUsers :
          (/\ MarkRead_Served(u)
           /\ markReq[u].read_seq < readSeq[u][markReq[u].conversation_id])
              => readSeq' = readSeq

\* C8: read_seq of a (user, conversation) never decreases in any step, and
\* a mark_read whose seq is lower than the current read_seq leaves every
\* read_seq as it was, whatever the order and interleaving of the mark_read
\* calls of the users.
C8_ReadSeqMonotonic == [][ReadSeqKept]_vars

\* a mark_read with a positive seq below the stored read_seq was answered
\* with success and the higher read_seq is still stored, while the other
\* user has a request in flight
C8_Witness ==
    \E u \in SeqUsers : \E v \in SeqUsers \ {u} :
        /\ markReq[u] # None
        /\ markReq[u].state = "served"
        /\ markReq[u].read_seq >= 1
        /\ markReq[u].read_seq < readSeq[u][markReq[u].conversation_id]
        /\ markReq[v] # None
        /\ markReq[v].state = "pending"

\* C9: in every reachable state read_seq <= max_seq for every (user,
\* conversation), whatever seq the mark_read requests carried and however
\* they interleave with the allocations that raise max_seq.
C9_ReadSeqBounded ==
    \A u \in SeqUsers, c \in SeqConvs : readSeq[u][c] <= maxSeq[c]

\* a mark_read carrying a seq above max_seq was answered with success while
\* an allocation on the conversation is under way, and read_seq is the
\* positive max_seq
C9_Witness ==
    \E u \in SeqUsers, a \in Allocators :
        /\ markReq[u] # None
        /\ markReq[u].state = "served"
        /\ markReq[u].read_seq > maxSeq[markReq[u].conversation_id]
        /\ maxSeq[markReq[u].conversation_id] > 0
        /\ readSeq[u][markReq[u].conversation_id] =
              maxSeq[markReq[u].conversation_id]
        /\ pcA[a] = "called"
        /\ argA[a] = markReq[u].conversation_id

\* the numbers of the range r, a set
RangeNumbers(r) == r.first .. r.last

\* C10: for one conversation the numbers handed out, in the order of the
\* counter steps, are strictly increasing, so pairwise distinct; the ranges
\* held by concurrent allocations are disjoint; the numbers of an allocation
\* are greater than every number returned by an allocation that completed
\* before it was called; and max_seq never decreases.
C10_AllocationOrdered ==
    /\ [](\A c \in SeqConvs :
             \A i \in 1..Len(issued[c]), j \in 1..Len(issued[c]) :
                 i < j => issued[c][i] < issued[c][j])
    /\ [](\A a \in Allocators, b \in Allocators :
             (a # b /\ pcA[a] = "got" /\ pcA[b] = "got" /\ argA[a] = argA[b])
                 => RangeNumbers(retA[a]) \cap RangeNumbers(retA[b]) = {})
    /\ [](\A a \in Allocators :
             pcA[a] = "got" =>
                 /\ retA[a].first <= retA[a].last
                 /\ retA[a].first > floorA[a])
    /\ [][\A c \in SeqConvs : maxSeq'[c] >= maxSeq[c]]_vars

\* two allocations on one conversation hold their ranges at the same time,
\* one of them called after an earlier allocation had returned its numbers
C10_Witness ==
    \E a \in Allocators, b \in Allocators :
        /\ a # b
        /\ pcA[a] = "got"
        /\ pcA[b] = "got"
        /\ argA[a] = argA[b]
        /\ floorA[a] > 0
        /\ floorA[b] = 0

(***************************************************************************)
(* sdk actor ids: GetUserActorUserId, GetAgentActorUserId,                 *)
(* GetActorFromUserId and MGetActorFromUserIds over common.Actor.          *)
(* A string is a sequence of one-character strings.                        *)
(***************************************************************************)
\* greatest numeric id converted
MaxActorId == 12
\* greatest length of the list given to MGetActorFromUserIds
MaxUserIds == 2

RoleUser == "user"
RoleAgent == "agent"
Roles == {RoleUser, RoleAgent}

\* the role tag that opens the IM user id of each role
RoleTag(role) ==
    IF role = RoleUser THEN <<"u", "_", "_", "_">> ELSE <<"a", "g", "_", "_">>

DigitChars == <<"0", "1", "2", "3", "4", "5", "6", "7", "8", "9">>

IsDigit(ch) == \E d \in 1..10 : DigitChars[d] = ch

DigitValue(ch) == (CHOOSE d \in 1..10 : DigitChars[d] = ch) - 1

RECURSIVE FormatInt(_)
\* the decimal digits of a number that is not negative
FormatInt(n) ==
    IF n < 10 THEN <<DigitChars[n + 1]>>
    ELSE FormatInt(n \div 10) \o <<DigitChars[(n % 10) + 1]>>

RECURSIVE ParseInt(_)
\* the number written by a non-empty sequence of digits
ParseInt(ds) ==
    IF Len(ds) = 1 THEN DigitValue(ds[1])
    ELSE 10 * ParseInt(SubSeq(ds, 1, Len(ds) - 1)) + DigitValue(ds[Len(ds)])

ErrInvalidUserId == "invalid im user id"

\* the zero value of common.Actor
ZeroActor == [Role |-> "", Id |-> 0]

\* Actor.ToIMUserId: the role tag followed by the id in decimal
ToIMUserId(ac) == RoleTag(ac.Role) \o FormatInt(ac.Id)

\* Actor.FromIMUserId reading every id as a user's
FromIMUserId_AnyTag(userId) ==
    IF /\ Len(userId) > 4
       /\ \A i \in 5..Len(userId) : IsDigit(userId[i])
    THEN [actor |-> [Role |-> RoleUser,
                     Id |-> ParseInt(SubSeq(userId, 5, Len(userId)))],
          err |-> NoErr]
    ELSE [actor |-> ZeroActor, err |-> ErrInvalidUserId]

\* Actor.FromIMUserId: the role of the tag and the number behind it, or an
\* error for a string that is not a tag followed by digits
FromIMUserId(userId) ==
    IF /\ Len(userId) > 4
       /\ \E r \in Roles : SubSeq(userId, 1, 4) = RoleTag(r)
       /\ \A i \in 5..Len(userId) : IsDigit(userId[i])
    THEN [actor |-> [Role |-> CHOOSE r \in Roles : SubSeq(userId, 1, 4) = RoleTag(r),
                     Id |-> ParseInt(SubSeq(userId, 5, Len(userId)))],
          err |-> NoErr]
    ELSE [actor |-> ZeroActor, err |-> ErrInvalidUserId]

GetUserActorUserId(userId) == ToIMUserId([Role |-> RoleUser, Id |-> userId])

GetAgentActorUserId(agentId) == ToIMUserId([Role |-> RoleAgent, Id |-> agentId])

GetActorFromUserId(userId) == FromIMUserId(userId)

RECURSIVE MGetLoop(_, _, _)
\* the loop of MGetActorFromUserIds from element i on: every id is parsed,
\* the first error ends the call, and ret is returned as it was declared
MGetLoop(userIds, i, ret) ==
    IF i > Len(userIds) THEN [actors |-> ret, err |-> NoErr]
    ELSE IF FromIMUserId(userIds[i]).err # NoErr
         THEN [actors |-> <<>>, err |-> FromIMUserId(userIds[i]).err]
         ELSE MGetLoop(userIds, i + 1, ret)

MGetActorFromUserIds(userIds) == MGetLoop(userIds, 1, <<>>)

\* strings that are not an IM user id
MalformedUserIds ==
    { <<"b", "a", "d">>,
      <<>>,
      <<"u", "_", "_", "_">>,
      <<"u", "_", "_", "1">>,
      <<"x", "_", "_", "_", "1">>,
      <<"a", "g", "_", "_", "1", "x">> }

\* the IM user ids of the actors with an id up to MaxActorId
ValidUserIds ==
    {GetUserActorUserId(n) : n \in 1..MaxActorId}
        \cup {GetAgentActorUserId(n) : n \in 1..MaxActorId}

\* the strings a caller passes: ids of actors and malformed ones
UserIdInputs == MalformedUserIds \cup {GetUserActorUserId(1),
    GetUserActorUserId(MaxActorId), GetAgentActorUserId(3),
    GetAgentActorUserId(MaxActorId - 2)}

\* the strings the lists given to MGetActorFromUserIds are made of
MGetInputs ==
    {GetUserActorUserId(MaxActorId), GetAgentActorUserId(3),
     <<"b", "a", "d">>, <<"u", "_", "_", "_">>}

\* the lists of at most MaxUserIds strings over S
ListsOver(S) == UNION {[1..n -> S] : n \in 0..MaxUserIds}

\* a caller converts an actor to its IM user id
Actor_ToUserId(role, id) ==
    /\ acActor' = [Role |-> role, Id |-> id]
    /\ acStr' = IF role = RoleUser THEN GetUserActorUserId(id)
                ELSE GetAgentActorUserId(id)
    /\ acParsed' = None
    /\ UNCHANGED <<acList, acMRes>>
    /\ UNCHANGED nonActorVars

\* a caller holds a string that came from elsewhere
Actor_Input(s) ==
    /\ acActor' = None
    /\ acStr' = s
    /\ acParsed' = None
    /\ UNCHANGED <<acList, acMRes>>
    /\ UNCHANGED nonActorVars

\* the caller parses the string at hand
Actor_FromUserId ==
    /\ acParsed = None
    /\ acParsed' = GetActorFromUserId(acStr)
    /\ UNCHANGED <<acActor, acStr, acList, acMRes>>
    /\ UNCHANGED nonActorVars

\* a caller parses a list of strings
Actor_MGet(l) ==
    /\ acList' = l
    /\ acMRes' = MGetActorFromUserIds(l)
    /\ UNCHANGED <<acActor, acStr, acParsed>>
    /\ UNCHANGED nonActorVars

InitActor == NewWebSocketClientConn /\ PageIdle /\ SeqInit /\ LaterIdle

NextActor ==
    \/ \E r \in Roles, n \in 1..MaxActorId : Actor_ToUserId(r, n)
    \/ \E s \in UserIdInputs : Actor_Input(s)
    \/ Actor_FromUserId
    \/ \E l \in ListsOver(MGetInputs) : Actor_MGet(l)

SpecActor == InitActor /\ [][NextActor]_vars

\* the actor an IM user id of the callers stands for, read off the table of
\* ids: "u___<n>" is user n, "ag__<n>" is agent n
ActorOf(s) ==
    CHOOSE ac \in [Role : Roles, Id : 1..MaxActorId] :
        s = (IF ac.Role = RoleUser THEN GetUserActorUserId(ac.Id)
             ELSE GetAgentActorUserId(ac.Id))

\* C17: MGetActorFromUserIds on a list of valid IM user ids returns no error
\* and one actor per input id, in input order, each with the role and the
\* numeric id of that id; the result is as long as the input.
C17_MGetOnePerInput ==
    (acMRes # None /\ \A i \in 1..Len(acList) : acList[i] \in ValidUserIds) =>
        /\ acMRes.err = NoErr
        /\ Len(acMRes.actors) = Len(acList)
        /\ \A i \in 1..Len(acList) : acMRes.actors[i] = ActorOf(acList[i])

\* what the code does on a list of valid ids: no error and no actor at all
C17_Observed ==
    (acMRes # None /\ \A i \in 1..Len(acList) : acList[i] \in ValidUserIds) =>
        /\ acMRes.err = NoErr
        /\ acMRes.actors = <<>>

\* a list of two valid ids was parsed
C17_Witness ==
    /\ acMRes # None
    /\ Len(acList) = 2
    /\ \A i \in 1..Len(acList) : acList[i] \in ValidUserIds

\* C18: converting an actor with a valid role and id to its IM user id and
\* parsing that string gives the same role and id without error; parsing a
\* malformed string gives an error; MGetActorFromUserIds gives an error when
\* an element of its list is malformed.
C18_ActorRoundTrip ==
    /\ (acActor # None /\ acParsed # None) =>
          (acParsed.err = NoErr /\ acParsed.actor = acActor)
    /\ (acParsed # None /\ acStr \in MalformedUserIds) => acParsed.err # NoErr
    /\ (acMRes # None /\ \E i \in 1..Len(acList) : acList[i] \in MalformedUserIds)
          => acMRes.err # NoErr

\* an agent with a two-digit id went to its string and back, and a list with
\* a valid id followed by a malformed one was refused
C18_Witness ==
    /\ acActor # None
    /\ acActor.Role = RoleAgent
    /\ acActor.Id >= 10
    /\ acParsed # None
    /\ acMRes # None
    /\ Len(acList) = 2
    /\ acList[1] \in ValidUserIds
    /\ acList[2] \in MalformedUserIds

(***************************************************************************)
(* Auth middleware: JWTAuth, InternalAuth and InternalAuthAsUser.          *)
(* Header values are sequences of one-character strings.                   *)
(***************************************************************************)
RECURSIVE TrimLeft(_)
TrimLeft(s) ==
    IF s # <<>> /\ Head(s) = " " THEN TrimLeft(Tail(s)) ELSE s

RECURSIVE TrimRight(_)
TrimRight(s) ==
    IF s # <<>> /\ s[Len(s)] = " " THEN TrimRight(SubSeq(s, 1, Len(s) - 1))
    ELSE s

\* strings.TrimSpace
TrimSpace(s) == TrimRight(TrimLeft(s))

\* strings.HasPrefix
HasPrefix(s, prefix) ==
    Len(s) >= Len(prefix) /\ SubSeq(s, 1, Len(prefix)) = prefix

\* strings.TrimPrefix
TrimPrefix(s, prefix) ==
    IF HasPrefix(s, prefix) THEN SubSeq(s, Len(prefix) + 1, Len(s)) ELSE s

BearerPrefix == <<"B", "e", "a", "r", "e", "r", " ">>

ErrTokenMissing == "token missing"
ErrTokenInvalid == "token invalid"
ErrUnauthorized == "unauthorized"
ErrForbidden == "forbidden"
ErrInvalidParam == "invalid param"

\* config.TEST
TestEnv == <<"t", "e", "s", "t">>

\* the tokens callers present: what each was signed with and what it carries
TokenTable ==
    [n |-> [format |-> "nexo", secret |-> "s1", user_id |-> <<"u", "1">>, platform_id |-> 1],
     m |-> [format |-> "nexo", secret |-> "s9", user_id |-> <<"u", "2">>, platform_id |-> 1],
     x |-> [format |-> "external", secret |-> "s2", user_id |-> <<"u", "3">>, platform_id |-> 0]]

\* the token a string is, when it is one
TokenName(tokenString) ==
    IF tokenString = <<"n">> THEN "n"
    ELSE IF tokenString = <<"m">> THEN "m"
    ELSE IF tokenString = <<"x">> THEN "x"
    ELSE "garbage"

\* jwt.ParseToken: the claims of a token of this system signed with secret
ParseToken(tokenString, secret) ==
    LET t == TokenName(tokenString)
    IN  IF /\ t # "garbage"
           /\ TokenTable[t].format = "nexo"
           /\ TokenTable[t].secret = secret
        THEN [claims |-> [UserId |-> TokenTable[t].user_id,
                          PlatformId |-> TokenTable[t].platform_id],
              err |-> NoErr]
        ELSE [claims |-> None, err |-> ErrTokenInvalid]

\* jwt.ParseExternalToken: the claims of the other issuer's token, with the
\* configured default platform
ParseExternalToken(tokenString, secret, defaultPlatformId) ==
    LET t == TokenName(tokenString)
    IN  IF /\ t # "garbage"
           /\ TokenTable[t].format = "external"
           /\ TokenTable[t].secret = secret
        THEN [claims |-> [UserId |-> TokenTable[t].user_id,
                          PlatformId |-> defaultPlatformId],
              err |-> NoErr]
        ELSE [claims |-> None, err |-> ErrTokenInvalid]

\* ParseTokenWithFallback: the native token first, then the external one if
\* enabled
ParseTokenWithFallback(tokenString, c) ==
    IF c = None THEN [claims |-> None, err |-> ErrTokenInvalid]
    ELSE IF ParseToken(tokenString, c.JWT.Secret).err = NoErr
         THEN ParseToken(tokenString, c.JWT.Secret)
         ELSE IF c.ExternalJWT.Enabled
              THEN ParseExternalToken(tokenString, c.ExternalJWT.Secret,
                                      c.ExternalJWT.DefaultPlatformId)
              ELSE ParseToken(tokenString, c.JWT.Secret)

\* extractToken: the bearer token of Authorization, else X-Token
extractToken(req) ==
    LET authHeader == TrimSpace(req.Authorization)
        xToken == TrimSpace(req.XToken)
    IN  IF authHeader # <<>>
        THEN IF HasPrefix(authHeader, BearerPrefix)
             THEN LET tokenString == TrimSpace(TrimPrefix(authHeader, BearerPrefix))
                  IN  IF tokenString = <<>>
                      THEN [token |-> <<>>, err |-> ErrTokenMissing]
                      ELSE [token |-> tokenString, err |-> NoErr]
             ELSE IF xToken # <<>>
                  THEN [token |-> xToken, err |-> NoErr]
                  ELSE [token |-> <<>>, err |-> ErrTokenInvalid]
        ELSE IF xToken = <<>>
             THEN [token |-> <<>>, err |-> ErrTokenMissing]
             ELSE [token |-> xToken, err |-> NoErr]

\* strings.ToLower on the letters the values here are made of
LowerChar(ch) ==
    CASE ch = "A" -> "a"
      [] ch = "B" -> "b"
      [] ch = "C" -> "c"
      [] ch = "D" -> "d"
      [] ch = "E" -> "e"
      [] ch = "F" -> "f"
      [] ch = "S" -> "s"
      [] ch = "T" -> "t"
      [] ch = "V" -> "v"
      [] OTHER -> ch

ToLower(s) == [i \in 1..Len(s) |-> LowerChar(s[i])]

\* strings.EqualFold
EqualFold(s, t) == ToLower(s) = ToLower(t)

\* isTestEnv
isTestEnv == EqualFold(TrimSpace(infraEnv), TestEnv)

\* the chain aborted with an error: the handler does not run
Aborted(code) ==
    [aborted |-> TRUE, code |-> code, ran |-> FALSE, user_id |-> <<>>,
     platform_id |-> 0, service |-> <<>>]

\* c.Next ran the handler with these values in the request context
Passed(userId, platformId, serviceName) ==
    [aborted |-> FALSE, code |-> NoErr, ran |-> TRUE, user_id |-> userId,
     platform_id |-> platformId, service |-> serviceName]

\* JWTAuth running the handler whatever the checks said
JWTAuth_NoAbort(req) ==
    LET claims == ParseTokenWithFallback(extractToken(req).token, cfg).claims
    IN  IF claims = None THEN Passed(<<>>, 0, <<>>)
        ELSE Passed(claims.UserId, claims.PlatformId, <<>>)

\* JWTAuth
JWTAuth(req) ==
    IF isTestEnv /\ Len(req.IgnoreAuth) # 0 THEN Passed(<<>>, 0, <<>>)
    ELSE IF extractToken(req).err = ErrTokenMissing THEN Aborted(ErrTokenMissing)
    ELSE IF extractToken(req).err # NoErr THEN Aborted(ErrTokenInvalid)
    ELSE LET parsed == ParseTokenWithFallback(extractToken(req).token, cfg)
         IN  IF parsed.err # NoErr THEN Aborted(ErrTokenInvalid)
             ELSE Passed(parsed.claims.UserId, parsed.claims.PlatformId, <<>>)

\* the characters of the values hashed here, in the order of their codes
Alphabet ==
    <<"a", "b", "c", "d", "e", "f", "g", "h", "i", "j", "k", "l", "m", "n",
      "o", "p", "q", "r", "s", "t", "u", "v", "w", "x", "y", "z",
      "0", "1", "2", "3", "4", "5", "6", "7", "8", "9",
      "A", "B", "C", "D", "E", "F", "G", "O", "P", "S", "T", "V",
      " ", "-", "_", "/", "+", "\n">>

CharCodes ==
    [ch \in {Alphabet[i] : i \in 1..Len(Alphabet)} |->
        CHOOSE i \in 1..Len(Alphabet) : Alphabet[i] = ch]

CharCode(ch) == CharCodes[ch]

HexChars == <<"0", "1", "2", "3", "4", "5", "6", "7", "8", "9",
              "a", "b", "c", "d", "e", "f">>

\* hex.EncodeToString of a one-byte digest
EncodeToString(byte) == <<HexChars[(byte \div 16) + 1], HexChars[(byte % 16) + 1]>>

RECURSIVE Digest(_, _)
\* a one-byte digest of a string: every character counts with its position
Digest(str, i) ==
    IF i > Len(str) THEN 0
    ELSE (CharCode(str[i]) * (2 * i + 1) + 3 * Digest(str, i + 1)) % 256

\* sha256.Sum256, scaled to one byte
Sum256(body) == (Digest(body, 1) + 17) % 256

\* HMAC-SHA256 of the payload under the secret, scaled to one byte
HmacSum(secret, payload) == Digest(secret \o <<"\n">> \o payload, 1)

UpperChar(ch) ==
    CASE ch = "a" -> "A"
      [] ch = "b" -> "B"
      [] ch = "c" -> "C"
      [] ch = "d" -> "D"
      [] ch = "e" -> "E"
      [] ch = "f" -> "F"
      [] ch = "g" -> "G"
      [] ch = "o" -> "O"
      [] ch = "p" -> "P"
      [] ch = "s" -> "S"
      [] ch = "t" -> "T"
      [] ch = "v" -> "V"
      [] OTHER -> ch

ToUpper(s) == [i \in 1..Len(s) |-> UpperChar(s[i])]

\* signInternalRequest
signInternalRequest(secret, serviceName, timestamp, method, path, body) ==
    LET bodyHash == EncodeToString(Sum256(body))
        payload == serviceName \o <<"\n">> \o timestamp \o <<"\n">> \o
                   ToUpper(method) \o <<"\n">> \o path \o <<"\n">> \o bodyHash
    IN  EncodeToString(HmacSum(secret, payload))

\* strconv.ParseInt / strconv.Atoi: digits behind an optional sign
ParseInt64(str) ==
    LET signed == str # <<>> /\ Head(str) \in {"-", "+"}
        digits == IF signed THEN Tail(str) ELSE str
    IN  IF digits = <<>> \/ \E i \in 1..Len(digits) : ~IsDigit(digits[i])
        THEN [v |-> 0, err |-> "syntax"]
        ELSE [v |-> IF signed /\ Head(str) = "-" THEN 0 - ParseInt(digits)
                    ELSE ParseInt(digits),
              err |-> NoErr]

absInt64(v) == IF v < 0 THEN 0 - v ELSE v

\* isServiceAllowed letting every service in
isServiceAllowed_All(serviceName, allowed) == TRUE

\* isServiceAllowed: an empty list allows every service
isServiceAllowed(serviceName, allowed) ==
    IF Len(allowed) = 0 THEN TRUE
    ELSE \E i \in 1..Len(allowed) : EqualFold(TrimSpace(allowed[i]), serviceName)

\* validateInternalRequest with the acting user under the signature
validateInternalRequest_SignsUser(req) ==
    IF cfg = None THEN [service |-> <<>>, err |-> ErrForbidden]
    ELSE IF ~cfg.InternalAuth.Enabled THEN [service |-> <<>>, err |-> ErrForbidden]
    ELSE IF TrimSpace(cfg.InternalAuth.Secret) = <<>>
         THEN [service |-> <<>>, err |-> ErrForbidden]
    ELSE LET serviceName == TrimSpace(req.ServiceName)
             tsStr == TrimSpace(req.Timestamp)
             signature == TrimSpace(req.Signature)
         IN  IF serviceName = <<>> \/ tsStr = <<>> \/ signature = <<>>
             THEN [service |-> <<>>, err |-> ErrUnauthorized]
             ELSE IF ~isServiceAllowed(serviceName, cfg.InternalAuth.AllowedServices)
             THEN [service |-> <<>>, err |-> ErrForbidden]
             ELSE IF ParseInt64(tsStr).err # NoErr
             THEN [service |-> <<>>, err |-> ErrUnauthorized]
             ELSE IF absInt64(req.Now - ParseInt64(tsStr).v) >
                        cfg.InternalAuth.MaxSkewSeconds
             THEN [service |-> <<>>, err |-> ErrUnauthorized]
             ELSE IF ToLower(signature) #
                        signInternalRequest(cfg.InternalAuth.Secret, serviceName,
                            tsStr, req.Method, req.Path \o req.UserId, req.Body)
             THEN [service |-> <<>>, err |-> ErrUnauthorized]
             ELSE [service |-> serviceName, err |-> NoErr]


\* validateInternalRequest: the service name, or the error that aborts
validateInternalRequest(req) ==
    IF cfg = None THEN [service |-> <<>>, err |-> ErrForbidden]
    ELSE IF ~cfg.InternalAuth.Enabled THEN [service |-> <<>>, err |-> ErrForbidden]
    ELSE IF TrimSpace(cfg.InternalAuth.Secret) = <<>>
         THEN [service |-> <<>>, err |-> ErrForbidden]
    ELSE LET serviceName == TrimSpace(req.ServiceName)
             tsStr == TrimSpace(req.Timestamp)
             signature == TrimSpace(req.Signature)
         IN  IF serviceName = <<>> \/ tsStr = <<>> \/ signature = <<>>
             THEN [service |-> <<>>, err |-> ErrUnauthorized]
             ELSE IF ~isServiceAllowed(serviceName, cfg.InternalAuth.AllowedServices)
             THEN [service |-> <<>>, err |-> ErrForbidden]
             ELSE IF ParseInt64(tsStr).err # NoErr
             THEN [service |-> <<>>, err |-> ErrUnauthorized]
             ELSE IF absInt64(req.Now - ParseInt64(tsStr).v) >
                        cfg.InternalAuth.MaxSkewSeconds
             THEN [service |-> <<>>, err |-> ErrUnauthorized]
             ELSE IF ToLower(signature) #
                        signInternalRequest(cfg.InternalAuth.Secret, serviceName,
                            tsStr, req.Method, req.Path, req.Body)
             THEN [service |-> <<>>, err |-> ErrUnauthorized]
             ELSE [service |-> serviceName, err |-> NoErr]

\* InternalAuth
InternalAuth(req) ==
    IF validateInternalRequest(req).err # NoErr
    THEN Aborted(validateInternalRequest(req).err)
    ELSE Passed(<<>>, 0, validateInternalRequest(req).service)

\* the platform the request context gets when none is named: Web
DefaultPlatformId == 5

\* InternalAuthAsUser
InternalAuthAsUser(req) ==
    IF validateInternalRequest(req).err # NoErr
    THEN Aborted(validateInternalRequest(req).err)
    ELSE LET userId == TrimSpace(req.UserId)
             platformIdStr == TrimSpace(req.PlatformId)
         IN  IF userId = <<>> THEN Aborted(ErrUnauthorized)
             ELSE IF platformIdStr = <<>>
             THEN Passed(userId, DefaultPlatformId, validateInternalRequest(req).service)
             ELSE IF ParseInt64(platformIdStr).err # NoErr \/ ParseInt64(platformIdStr).v <= 0
             THEN Aborted(ErrInvalidParam)
             ELSE Passed(userId, ParseInt64(platformIdStr).v,
                         validateInternalRequest(req).service)

\* greatest unix time of the clock and of the X-Timestamp values
MaxNow == 2

AuthorizationValues ==
    { <<>>,
      <<" ">>,
      BearerPrefix \o <<"n">>,
      BearerPrefix \o <<"m">>,
      BearerPrefix \o <<"x">>,
      <<" ">> \o BearerPrefix \o <<" ", "n", " ">>,
      BearerPrefix,
      <<"B", "a", "s", "i", "c", " ", "n">>,
      <<"n">> }

XTokenValues == { <<>>, <<" ">>, <<"n">>, <<" ", "x">>, <<"z">> }

JWTRequests ==
    [Authorization : AuthorizationValues, XToken : XTokenValues,
     IgnoreAuth : {<<>>, <<"1">>}]

ServiceNames == { <<>>, <<"s", "v", "c">>, <<"S", "V", "C">>, <<"b", "a", "d">> }

TimestampValues == { <<>>, <<"x">> } \cup {FormatInt(t) : t \in 0..MaxNow}

\* an internal request before it is signed
InternalBases ==
    [ServiceName : ServiceNames, Timestamp : TimestampValues,
     Method : {<<"p", "o", "s", "t">>}, Path : {<<"/", "i">>},
     Body : {<<>>, <<"b">>}, Now : 0..MaxNow]

\* the secret the calling services sign with
CallerSecret == <<"k", "1">>

SignatureKinds == {"none", "good", "upper", "padded", "stale", "forged"}

\* the X-Signature a caller sends with the request b
SignatureOf(b, kind) ==
    LET sig(secret, body) ==
            signInternalRequest(secret, TrimSpace(b.ServiceName),
                TrimSpace(b.Timestamp), b.Method, b.Path, body)
    IN  CASE kind = "none" -> <<>>
          [] kind = "good" -> sig(CallerSecret, b.Body)
          [] kind = "upper" -> ToUpper(sig(CallerSecret, b.Body))
          [] kind = "padded" -> <<" ">> \o sig(CallerSecret, b.Body)
          [] kind = "stale" -> sig(CallerSecret, b.Body \o <<"c">>)
          [] kind = "forged" -> sig(<<"z", "z">>, b.Body)

InternalRequest(b, kind, userId, platformId) ==
    [ServiceName |-> b.ServiceName, Timestamp |-> b.Timestamp,
     Signature |-> SignatureOf(b, kind), Method |-> b.Method, Path |-> b.Path,
     Body |-> b.Body, Now |-> b.Now, UserId |-> userId, PlatformId |-> platformId]

UserIdValues == { <<>>, <<"u", "1">> }

PlatformIdValues == { <<>>, <<"2">>, <<"0">>, <<"x">> }

\* a request reaches a route behind JWTAuth
Auth_JWT(req) ==
    /\ httpReq = None
    /\ httpReq' = [mw |-> "JWTAuth", req |-> req]
    /\ httpRes' = JWTAuth(req)
    /\ UNCHANGED <<cfg, infraEnv>>
    /\ UNCHANGED nonAuthVars

\* a request reaches a route behind InternalAuth
Auth_Internal(b, kind) ==
    /\ httpReq = None
    /\ httpReq' = [mw |-> "InternalAuth", req |-> InternalRequest(b, kind, <<>>, <<>>)]
    /\ httpRes' = InternalAuth(InternalRequest(b, kind, <<>>, <<>>))
    /\ UNCHANGED <<cfg, infraEnv>>
    /\ UNCHANGED nonAuthVars

\* a request reaches a route behind InternalAuthAsUser
Auth_InternalAsUser(b, kind, userId, platformId) ==
    /\ httpReq = None
    /\ httpReq' = [mw |-> "InternalAuthAsUser",
                   req |-> InternalRequest(b, kind, userId, platformId)]
    /\ httpRes' = InternalAuthAsUser(InternalRequest(b, kind, userId, platformId))
    /\ UNCHANGED <<cfg, infraEnv>>
    /\ UNCHANGED nonAuthVars

\* the response is sent and the request context released
Auth_Done ==
    /\ httpReq # None
    /\ httpReq' = None
    /\ httpRes' = None
    /\ UNCHANGED <<cfg, infraEnv>>
    /\ UNCHANGED nonAuthVars

JWTConfig == [Secret |-> "s1"]

ExternalJWTConfigs ==
    [Enabled : BOOLEAN, Secret : {"s2"}, DefaultPlatformId : {DefaultPlatformId}]

InternalAuthOff ==
    [Enabled |-> FALSE, Secret |-> <<>>, AllowedServices |-> <<>>,
     MaxSkewSeconds |-> 0]

InternalAuthConfigs ==
    [Enabled : BOOLEAN,
     Secret : { <<>>, <<" ">>, CallerSecret, <<"k", "2">> },
     AllowedServices : { <<>>, << <<"s", "v", "c">> >>,
                         << <<"o", "t">>, <<" ", "S", "v", "c", " ">> >> },
     MaxSkewSeconds : {0, 1}]

EnvValues == { <<>>, <<" ", "T", "e", "s", "t">>, <<"p", "r", "o", "d">> }

\* the configurations and environments the server is started with
InitAuth ==
    /\ NewWebSocketClientConn /\ PageIdle /\ SeqInit /\ ActorIdle /\ ConvIdle
    /\ MsgIdle /\ GwIdle /\ MainServing
    /\ \/ /\ cfg \in [JWT : {JWTConfig}, ExternalJWT : ExternalJWTConfigs,
                      InternalAuth : {InternalAuthOff}]
          /\ infraEnv \in EnvValues
       \/ /\ cfg \in [JWT : {JWTConfig},
                      ExternalJWT : {[Enabled |-> FALSE, Secret |-> "s2",
                                      DefaultPlatformId |-> DefaultPlatformId]},
                      InternalAuth : InternalAuthConfigs]
          /\ infraEnv = <<>>
       \/ /\ cfg = None
          /\ infraEnv = <<>>
    /\ httpReq = None
    /\ httpRes = None

\* the internal requests sent to the routes that act as a user
AsUserBases ==
    {b \in InternalBases :
        b.Body = <<>> /\ b.ServiceName \in {<<"s", "v", "c">>, <<"b", "a", "d">>}}

NextAuth ==
    \/ httpReq = None /\ \E req \in JWTRequests : Auth_JWT(req)
    \/ httpReq = None /\ \E b \in InternalBases, kind \in SignatureKinds :
          Auth_Internal(b, kind)
    \/ httpReq = None /\ \E b \in AsUserBases, kind \in {"none", "good"},
          u \in UserIdValues, pl \in PlatformIdValues :
              Auth_InternalAsUser(b, kind, u, pl)
    \/ Auth_Done

SpecAuth == InitAuth /\ [][NextAuth]_vars

(***************************************************************************)
(* Properties of the auth middleware.                                      *)
(***************************************************************************)
\* the request now in the chain went through middleware mw
Handled(mw) == httpReq # None /\ httpReq.mw = mw

\* the TEST-environment bypass applies to the request
BypassApplies(req) ==
    EqualFold(TrimSpace(infraEnv), TestEnv) /\ req.IgnoreAuth # <<>>

\* Authorization carries "Bearer <t>"
BearerFormed(req) == HasPrefix(TrimSpace(req.Authorization), BearerPrefix)

\* the request carries no token: no Authorization and no X-Token value
NoToken(req) ==
    TrimSpace(req.Authorization) = <<>> /\ TrimSpace(req.XToken) = <<>>

\* Authorization is there but is no bearer token, and X-Token is absent
MalformedToken(req) ==
    /\ TrimSpace(req.Authorization) # <<>>
    /\ ~BearerFormed(req)
    /\ TrimSpace(req.XToken) = <<>>

\* the token taken from Authorization: Bearer, else from X-Token
TakenToken(req) ==
    IF BearerFormed(req)
    THEN TrimSpace(SubSeq(TrimSpace(req.Authorization), Len(BearerPrefix) + 1,
                          Len(TrimSpace(req.Authorization))))
    ELSE TrimSpace(req.XToken)

\* the claims a token verifies to, or <<>>
VerifiedClaims(tokenString) == ParseTokenWithFallback(tokenString, cfg).claims

\* C15: when the TEST-environment Ignore-Auth bypass does not apply, the
\* handler behind JWTAuth runs only after the token taken from
\* Authorization: Bearer or X-Token has been verified, with user_id and
\* platform_id bound from its claims; a request with no token is aborted
\* with TokenMissing, one with a malformed or unverifiable token with
\* TokenInvalid, and then the handler does not run and no user id is bound.
C15_JWTAuthGate ==
    (Handled("JWTAuth") /\ ~BypassApplies(httpReq.req)) =>
        LET req == httpReq.req
            rejected(code) ==
                /\ httpRes.aborted
                /\ httpRes.code = code
                /\ ~httpRes.ran
                /\ httpRes.user_id = <<>>
        IN  /\ httpRes.ran =>
                  /\ ~NoToken(req)
                  /\ ~MalformedToken(req)
                  /\ VerifiedClaims(TakenToken(req)) # None
                  /\ httpRes.user_id = VerifiedClaims(TakenToken(req)).UserId
                  /\ httpRes.platform_id = VerifiedClaims(TakenToken(req)).PlatformId
            /\ NoToken(req) => rejected(ErrTokenMissing)
            /\ MalformedToken(req) => rejected(ErrTokenInvalid)
            /\ (~NoToken(req) /\ ~MalformedToken(req)
                    /\ VerifiedClaims(TakenToken(req)) = None)
                  => rejected(ErrTokenInvalid)

\* outside the TEST environment a request with a malformed Authorization
\* and the external issuer's token in X-Token ran the handler as that
\* token's user on the default platform
C15_Witness ==
    /\ Handled("JWTAuth")
    /\ ~BypassApplies(httpReq.req)
    /\ httpReq.req.IgnoreAuth # <<>>
    /\ TrimSpace(httpReq.req.Authorization) # <<>>
    /\ ~BearerFormed(httpReq.req)
    /\ httpRes.ran
    /\ httpRes.user_id = <<"u", "3">>
    /\ httpRes.platform_id = DefaultPlatformId

\* internal auth is enabled with a secret
InternalEnabled ==
    /\ cfg # None
    /\ cfg.InternalAuth.Enabled
    /\ TrimSpace(cfg.InternalAuth.Secret) # <<>>

\* X-Service-Name, X-Timestamp and X-Signature are all present
HeadersPresent(req) ==
    /\ TrimSpace(req.ServiceName) # <<>>
    /\ TrimSpace(req.Timestamp) # <<>>
    /\ TrimSpace(req.Signature) # <<>>

\* the calling service is named on the configured allow-list
OnAllowList(req) ==
    \E i \in 1..Len(cfg.InternalAuth.AllowedServices) :
        ToLower(TrimSpace(cfg.InternalAuth.AllowedServices[i])) =
            ToLower(TrimSpace(req.ServiceName))

\* X-Timestamp is a unix time within the configured skew of now
WithinSkew(req) ==
    LET ts == ParseInt64(TrimSpace(req.Timestamp))
    IN  /\ ts.err = NoErr
        /\ req.Now - ts.v <= cfg.InternalAuth.MaxSkewSeconds
        /\ ts.v - req.Now <= cfg.InternalAuth.MaxSkewSeconds

\* X-Signature is the HMAC over service, timestamp, METHOD, path, body hash
SignatureMatches(req) ==
    ToLower(TrimSpace(req.Signature)) =
        signInternalRequest(cfg.InternalAuth.Secret, TrimSpace(req.ServiceName),
            TrimSpace(req.Timestamp), req.Method, req.Path, req.Body)

\* the internal gate with the allow-list check given: the handler runs only
\* if every check passes, and the first check that fails decides the error
InternalGate(allowed(_)) ==
    (Handled("InternalAuth") \/ Handled("InternalAuthAsUser")) =>
        LET req == httpReq.req
            rejected(code) ==
                httpRes.aborted /\ httpRes.code = code /\ ~httpRes.ran
        IN  /\ httpRes.ran =>
                  /\ InternalEnabled
                  /\ HeadersPresent(req)
                  /\ allowed(req)
                  /\ WithinSkew(req)
                  /\ SignatureMatches(req)
            /\ ~InternalEnabled => rejected(ErrForbidden)
            /\ (InternalEnabled /\ ~HeadersPresent(req))
                  => rejected(ErrUnauthorized)
            /\ (InternalEnabled /\ HeadersPresent(req) /\ ~allowed(req))
                  => rejected(ErrForbidden)
            /\ (InternalEnabled /\ HeadersPresent(req) /\ allowed(req)
                    /\ ~(WithinSkew(req) /\ SignatureMatches(req)))
                  => rejected(ErrUnauthorized)

\* the allow-list is empty or names the calling service
AllowedOrUnrestricted(req) ==
    Len(cfg.InternalAuth.AllowedServices) = 0 \/ OnAllowList(req)

IntBits == 4

RECURSIVE Pow2(_)
Pow2(n) == IF n = 0 THEN 1 ELSE 2 * Pow2(n - 1)

MinInt64 == 0 - Pow2(IntBits - 1)
MaxInt64 == Pow2(IntBits - 1) - 1

\* the value of an int64 expression: two's complement wrap-around
Int64(x) == ((x - MinInt64) % Pow2(IntBits)) + MinInt64

\* strconv.ParseInt(s, 10, 64): 0 on a syntax error, the nearest int64 on a
\* range error
ParseIntBase10(str) ==
    LET p == ParseInt64(str)
    IN  IF p.err # NoErr THEN [v |-> 0, err |-> p.err]
        ELSE IF p.v > MaxInt64 THEN [v |-> MaxInt64, err |-> "range"]
        ELSE IF p.v < MinInt64 THEN [v |-> MinInt64, err |-> "range"]
        ELSE p

\* strconv.FormatInt
FormatInt64(v) == IF v < 0 THEN <<"-">> \o FormatInt(0 - v) ELSE FormatInt(v)

ErrConvNotFound == "conversation not found"

\* seqRepo.GetConversationSeqInfo: the max_seq row of the conversation, nil
\* when it has none
GetConversationSeqInfo(conversationId) ==
    IF conversationId \in DOMAIN maxSeq
    THEN [MaxSeq |-> maxSeq[conversationId]] ELSE None

\* seqRepo.GetSeqUser: the read_seq row of the user, nil when there is none
GetSeqUser(userId, conversationId) ==
    IF userId \in DOMAIN readSeq /\ conversationId \in DOMAIN readSeq[userId]
    THEN [ReadSeq |-> readSeq[userId][conversationId]] ELSE None

\* unreadCount := maxSeq - readSeq, without the test for a negative value
UnreadCount_NoClamp(mx, rd) == Int64(mx - rd)

\* unreadCount := maxSeq - readSeq; if unreadCount < 0 { unreadCount = 0 }
UnreadCount(mx, rd) == IF Int64(mx - rd) < 0 THEN 0 ELSE Int64(mx - rd)

\* ConversationService.GetConversation
GetConversation(userId, conversationId, repoFails) ==
    IF repoFails THEN [err |-> ErrInternalServer, info |-> None]
    ELSE IF convTable[userId][conversationId] = None
    THEN [err |-> ErrConvNotFound, info |-> None]
    ELSE LET seqConv == GetConversationSeqInfo(conversationId)
             seqUser == GetSeqUser(userId, conversationId)
             mx == IF seqConv # None THEN seqConv.MaxSeq ELSE 0
             rd == IF seqUser # None THEN seqUser.ReadSeq ELSE 0
         IN  [err |-> NoErr,
              info |-> [ConversationId |-> conversationId,
                        RecvMsgOpt |-> convTable[userId][conversationId].RecvMsgOpt,
                        IsPinned |-> convTable[userId][conversationId].IsPinned,
                        UnreadCount |-> UnreadCount(mx, rd),
                        MaxSeq |-> mx,
                        ReadSeq |-> rd]]

\* ConversationService.GetMaxReadSeq, the sequence row being there
GetMaxReadSeq(userId, conversationId) ==
    LET seqUser == GetSeqUser(userId, conversationId)
    IN  [maxSeq |-> GetConversationSeqInfo(conversationId).MaxSeq,
         readSeq |-> IF seqUser # None THEN seqUser.ReadSeq ELSE 0]

\* ConversationHandler.GetMaxReadSeq: the response data, or the error
GetMaxReadSeq_Handler(userId, conversationId, repoFails) ==
    IF repoFails THEN [err |-> ErrInternalServer, data |-> None]
    ELSE LET r == GetMaxReadSeq(userId, conversationId)
         IN  [err |-> NoErr,
              data |-> [max_seq |-> r.maxSeq, read_seq |-> r.readSeq,
                        unread_count |-> UnreadCount(r.maxSeq, r.readSeq)]]

\* ConversationHandler.GetUnreadCount: the read_seq of the query when it
\* parses to a non-zero number, else the stored one
GetUnreadCount_Handler(userId, conversationId, readSeqStr, repoFails) ==
    LET parsed == ParseIntBase10(readSeqStr).v
    IN  IF repoFails THEN [err |-> ErrInternalServer, data |-> None]
        ELSE LET r == GetMaxReadSeq(userId, conversationId)
                 rd == IF parsed = 0 THEN r.readSeq ELSE parsed
             IN  [err |-> NoErr,
                  data |-> [unread_count |-> UnreadCount(r.maxSeq, rd)]]

\* the updates map UpdateConversation builds from the request: a nil field
\* is <<>>, a set one <<v>>
UpdatesOf(req) ==
    [k \in (IF req.RecvMsgOpt # <<>> THEN {"recv_msg_opt"} ELSE {})
            \cup (IF req.IsPinned # <<>> THEN {"is_pinned"} ELSE {}) |->
        IF k = "recv_msg_opt" THEN req.RecvMsgOpt[1] ELSE req.IsPinned[1]]

\* ConversationRepo.Update: the named columns of the owner's row are set
ConvRepoUpdate(userId, conversationId, updates) ==
    IF convTable[userId][conversationId] = None THEN convTable
    ELSE [convTable EXCEPT ![userId][conversationId] =
            [RecvMsgOpt |-> IF "recv_msg_opt" \in DOMAIN updates
                            THEN updates["recv_msg_opt"] ELSE @.RecvMsgOpt,
             IsPinned |-> IF "is_pinned" \in DOMAIN updates
                          THEN updates["is_pinned"] ELSE @.IsPinned]]

\* UpdateConversation writing both columns whatever the request names
UpdateConversation_BothColumns(userId, conversationId, req, repoFails) ==
    [err |-> NoErr, wrote |-> TRUE,
     table |-> ConvRepoUpdate(userId, conversationId,
                  [recv_msg_opt |-> IF req.RecvMsgOpt # <<>> THEN req.RecvMsgOpt[1] ELSE 0,
                   is_pinned |-> IF req.IsPinned # <<>> THEN req.IsPinned[1] ELSE FALSE])]

\* ConversationService.UpdateConversation: the error returned, whether the
\* repository was called, and the rows afterwards
UpdateConversation(userId, conversationId, req, repoFails) ==
    IF DOMAIN UpdatesOf(req) = {}
    THEN [err |-> NoErr, wrote |-> FALSE, table |-> convTable]
    ELSE IF repoFails
    THEN [err |-> ErrInternalServer, wrote |-> FALSE, table |-> convTable]
    ELSE [err |-> NoErr, wrote |-> TRUE,
          table |-> ConvRepoUpdate(userId, conversationId, UpdatesOf(req))]

\* the read_seq values of the unread_count query
ReadSeqQueries ==
    { <<>>, <<"x">> } \cup
    {FormatInt64(v) : v \in {0, 1, MaxSeq + 1, 0 - 1, MinInt64 + 1, MinInt64,
                             MinInt64 - 1, MaxInt64, MaxInt64 + 1}}

\* the requests of UpdateConversation
UpdateRequests ==
    [RecvMsgOpt : {<<>>, <<0>>, <<1>>}, IsPinned : {<<>>, <<TRUE>>, <<FALSE>>}]

\* GET /conversation/info
Conv_GetConversation(u, c, repoFails) ==
    /\ cvReq = <<>>
    /\ cvReq' = [op |-> "GetConversation", user_id |-> u, conversation_id |-> c]
    /\ cvRes' = GetConversation(u, c, repoFails)
    /\ UNCHANGED <<convTable, seqVars>>
    /\ UNCHANGED nonConvVars

\* GET /conversation/max_read_seq
Conv_GetMaxReadSeq(u, c, repoFails) ==
    /\ cvReq = <<>>
    /\ c \in DOMAIN maxSeq
    /\ cvReq' = [op |-> "GetMaxReadSeq", user_id |-> u, conversation_id |-> c]
    /\ cvRes' = GetMaxReadSeq_Handler(u, c, repoFails)
    /\ UNCHANGED <<convTable, seqVars>>
    /\ UNCHANGED nonConvVars

\* GET /conversation/unread_count
Conv_GetUnreadCount(u, c, q, repoFails) ==
    /\ cvReq = <<>>
    /\ c \in DOMAIN maxSeq
    /\ cvReq' = [op |-> "GetUnreadCount", user_id |-> u, conversation_id |-> c,
                 read_seq |-> q]
    /\ cvRes' = GetUnreadCount_Handler(u, c, q, repoFails)
    /\ UNCHANGED <<convTable, seqVars>>
    /\ UNCHANGED nonConvVars

\* PUT /conversation/update
Conv_Update(u, c, req, repoFails) ==
    /\ cvReq = <<>>
    /\ cvReq' = [op |-> "UpdateConversation", user_id |-> u,
                 conversation_id |-> c, patch |-> req]
    /\ cvRes' = [err |-> UpdateConversation(u, c, req, repoFails).err,
                 wrote |-> UpdateConversation(u, c, req, repoFails).wrote]
    /\ convTable' = UpdateConversation(u, c, req, repoFails).table
    /\ UNCHANGED seqVars
    /\ UNCHANGED nonConvVars

\* the response is sent
Conv_Done ==
    /\ cvReq # <<>>
    /\ cvReq' = <<>>
    /\ cvRes' = <<>>
    /\ UNCHANGED <<convTable, seqVars>>
    /\ UNCHANGED nonConvVars

\* sequence rows as allocations and mark_read calls leave them
InitConv ==
    /\ NewWebSocketClientConn /\ PageIdle /\ LaterIdle
    /\ maxSeq \in [SeqConvs -> 0..MaxSeq]
    /\ readSeq \in [SeqUsers -> [SeqConvs -> 0..MaxSeq]]
    /\ \A u \in SeqUsers, c \in SeqConvs : readSeq[u][c] <= maxSeq[c]
    /\ pcA = [a \in Allocators |-> "idle"]
    /\ argA = [a \in Allocators |-> None]
    /\ retA = [a \in Allocators |-> None]
    /\ floorA = [a \in Allocators |-> 0]
    /\ returned = maxSeq
    /\ issued = [c \in SeqConvs |-> Numbers(1, maxSeq[c])]
    /\ markReq = [u \in SeqUsers |-> None]

NextConv ==
    \/ \E u \in ConvOwners, c \in ConvNames, f \in BOOLEAN :
          Conv_GetConversation(u, c, f)
    \/ \E u \in ConvOwners, c \in ConvNames, f \in BOOLEAN :
          Conv_GetMaxReadSeq(u, c, f)
    \/ \E u \in ConvOwners, c \in ConvNames, q \in ReadSeqQueries, f \in BOOLEAN :
          Conv_GetUnreadCount(u, c, q, f)
    \/ \E u \in ConvOwners, c \in ConvNames, req \in UpdateRequests, f \in BOOLEAN :
          Conv_Update(u, c, req, f)
    \/ Conv_Done

SpecConv == InitConv /\ [][NextConv]_vars

(***************************************************************************)
(* Properties of the conversation requests.                                *)
(***************************************************************************)
\* the request being served is a successful op
Served(op) == cvReq # <<>> /\ cvReq.op = op /\ cvRes.err = NoErr

\* the stored max_seq and read_seq the request is about
StoredMaxSeq == IF cvReq.conversation_id \in DOMAIN maxSeq
                THEN maxSeq[cvReq.conversation_id] ELSE 0
StoredReadSeq == IF cvReq.conversation_id \in DOMAIN maxSeq
                 THEN readSeq[cvReq.user_id][cvReq.conversation_id] ELSE 0

\* the number the read_seq query value writes, 0 when it writes none
QueryReadSeq == ParseInt64(cvReq.read_seq).v

\* the read_seq the unread_count endpoint counts from
CountedReadSeq == IF QueryReadSeq # 0 THEN QueryReadSeq ELSE StoredReadSeq

\* C19: every unread_count reported by GetConversation, by the max_read_seq
\* endpoint and by the unread_count endpoint is never negative and equals
\* max(0, max_seq - r), r being the stored read_seq of the caller and, for
\* the unread_count endpoint, the read_seq query value when it is non-zero.
C19_UnreadCount ==
    /\ Served("GetConversation") =>
          /\ cvRes.info.UnreadCount >= 0
          /\ cvRes.info.UnreadCount = Max2(0, StoredMaxSeq - StoredReadSeq)
    /\ Served("GetMaxReadSeq") =>
          /\ cvRes.data.unread_count >= 0
          /\ cvRes.data.unread_count = Max2(0, StoredMaxSeq - StoredReadSeq)
    /\ Served("GetUnreadCount") =>
          /\ cvRes.data.unread_count >= 0
          /\ cvRes.data.unread_count = Max2(0, StoredMaxSeq - CountedReadSeq)

\* what the code keeps: no unread_count is negative, the two endpoints
\* that count from the stored read_seq report max(0, max_seq - read_seq),
\* and the unread_count endpoint does whenever max_seq - r is an int64
C19_Observed ==
    /\ Served("GetConversation") =>
          cvRes.info.UnreadCount = Max2(0, StoredMaxSeq - StoredReadSeq)
    /\ Served("GetMaxReadSeq") =>
          cvRes.data.unread_count = Max2(0, StoredMaxSeq - StoredReadSeq)
    /\ Served("GetUnreadCount") =>
          /\ cvRes.data.unread_count >= 0
          /\ StoredMaxSeq - CountedReadSeq <= MaxInt64 =>
                cvRes.data.unread_count = Max2(0, StoredMaxSeq - CountedReadSeq)

\* the unread_count endpoint answered a request whose read_seq is the least
\* int64, for a conversation with messages
C19_Witness ==
    /\ Served("GetUnreadCount")
    /\ QueryReadSeq = MinInt64
    /\ StoredMaxSeq > 0

\* a step that serves an UpdateConversation request
UpdateStep == cvReq = <<>> /\ cvReq' # <<>> /\ cvReq'.op = "UpdateConversation"

\* the frame of an UpdateConversation step: an empty patch changes no row, a
\* patch of one field leaves the other field of the row alone, and no patch
\* touches another row
UpdateFrame ==
    UpdateStep =>
        LET u == cvReq'.user_id
            c == cvReq'.conversation_id
            patch == cvReq'.patch
        IN  /\ (patch.RecvMsgOpt = <<>> /\ patch.IsPinned = <<>>) =>
                  convTable' = convTable
            /\ \A o \in ConvOwners, n \in ConvNames :
                  (o # u \/ n # c) => convTable'[o][n] = convTable[o][n]
            /\ (convTable[u][c] # <<>> /\ patch.RecvMsgOpt = <<>>) =>
                  convTable'[u][c].RecvMsgOpt = convTable[u][c].RecvMsgOpt
            /\ (convTable[u][c] # <<>> /\ patch.IsPinned = <<>>) =>
                  convTable'[u][c].IsPinned = convTable[u][c].IsPinned
            /\ (convTable[u][c] = <<>>) => convTable'[u][c] = <<>>

\* C20: UpdateConversation with a patch that sets neither recv_msg_opt nor
\* is_pinned returns success without writing to storage; a patch that sets
\* one of the two fields leaves the other field, and every other
\* conversation row, unchanged.
C20_UpdateFrame ==
    /\ []((cvReq # <<>> /\ cvReq.op = "UpdateConversation"
             /\ cvReq.patch.RecvMsgOpt = <<>> /\ cvReq.patch.IsPinned = <<>>)
            => (cvRes.err = NoErr /\ ~cvRes.wrote))
    /\ [][UpdateFrame]_vars

\* a patch of is_pinned alone was written to a row whose recv_msg_opt an
\* earlier patch had set, while another row of the owner is as it began
C20_Witness ==
    /\ cvReq # <<>>
    /\ cvReq.op = "UpdateConversation"
    /\ cvReq.patch.RecvMsgOpt = <<>>
    /\ cvReq.patch.IsPinned = <<TRUE>>
    /\ cvRes.wrote
    /\ convTable[cvReq.user_id][cvReq.conversation_id] =
          [RecvMsgOpt |-> 1, IsPinned |-> TRUE]
    /\ \E n \in ConvNames \ {cvReq.conversation_id} :
          convTable[cvReq.user_id][n] = [RecvMsgOpt |-> 0, IsPinned |-> FALSE]

\* ------------------------------------------------------------------------
\* Send and pull.  The message service and the message store are described
\* by the design text (send path, pull path, message store) and exercised
\* by the WebSocket and SDK integration tests.
\* ------------------------------------------------------------------------

\* the send responses returned over the whole run
MaxResponses == 3
\* the largest limit a pull asks for
MaxPullLimit == 2

MsgConv == "c1"
\* the two sides of the single chat
Participants == {"u1", "u2"}
\* the recipient and a user outside the conversation
PullUsers == {"u2", "u3"}
ClientMsgIds == {"m1", "m2"}

NoError == "ok"
ErrTransient == "transient"
ErrInternal == "internal"
ErrConflict == "conflict"

\* the id the service generates for the message it is about to persist
ServerMsgId(seq) == <<"srv", seq>>

\* get_by_client_msg_id
GetByClientMsgId(store, conversationId, clientMsgId) ==
    {r \in store : /\ r.conversation_id = conversationId
                   /\ r.client_msg_id = clientMsgId}

\* a put that inserts without looking for a duplicate
Put_Always(store, msg) == [store |-> store \cup {msg}, row |-> msg]

\* a put that reports the row without storing it
Put_Drop(store, msg) == [store |-> store, row |-> msg]

\* put: a duplicate on (conversation_id, client_msg_id) returns the original
\* row and succeeds
Put(store, msg) ==
    LET dup == GetByClientMsgId(store, msg.conversation_id, msg.client_msg_id)
    IN  IF dup # {}
        THEN [store |-> store, row |-> CHOOSE r \in dup : TRUE]
        ELSE [store |-> store \cup {msg}, row |-> msg]

RECURSIVE AscendingBySeq(_)
AscendingBySeq(rows) ==
    IF rows = {} THEN <<>>
    ELSE LET first == CHOOSE r \in rows : \A q \in rows : r.seq <= q.seq
         IN  <<first>> \o AscendingBySeq(rows \ {first})

\* get_range: begin_seq <= seq <= end_seq, ascending, truncated to limit
GetRange(store, conversationId, beginSeq, endSeq, limit) ==
    LET hit == {r \in store : /\ r.conversation_id = conversationId
                              /\ beginSeq <= r.seq
                              /\ r.seq <= endSeq}
        all == AscendingBySeq(hit)
    IN  SubSeq(all, 1, IF Len(all) < limit THEN Len(all) ELSE limit)

\* a failed send carries the error and no data
SendFailure(code) ==
    [err |-> code, conversation_id |-> "", seq |-> 0,
     server_msg_id |-> <<>>, client_msg_id |-> ""]

SendSuccess(row) ==
    [err |-> NoError, conversation_id |-> row.conversation_id,
     seq |-> row.seq, server_msg_id |-> row.server_msg_id,
     client_msg_id |-> row.client_msg_id]

InFlight == Cardinality({p \in Senders : sndPc[p] # "idle"})

seqRest == <<readSeq, pcA, argA, retA, floorA, returned, issued, markReq>>
nonMsgVars == <<connVars, pageVars, actorVars, authVars, convVars, gwVars,
                mainVars>>

\* the send moves on to its next step
SendStep(p, pc, seq, row) ==
    /\ sndPc' = [sndPc EXCEPT ![p] = pc]
    /\ sndSeq' = [sndSeq EXCEPT ![p] = seq]
    /\ sndRow' = [sndRow EXCEPT ![p] = row]
    /\ UNCHANGED <<sndReq, responses>>

\* the send ends with a response to the sender
SendReturn(p, res) ==
    /\ sndPc' = [sndPc EXCEPT ![p] = "idle"]
    /\ sndReq' = [sndReq EXCEPT ![p] = <<>>]
    /\ sndSeq' = [sndSeq EXCEPT ![p] = 0]
    /\ sndRow' = [sndRow EXCEPT ![p] = <<>>]
    /\ responses' = Append(responses, res)

\* step 1, authorize: send_id must be the session's bound user; a refusal
\* has no side effects
Send_Call(p, bound, sendId, clientMsgId) ==
    /\ sndPc[p] = "idle"
    /\ Len(responses) + InFlight < MaxResponses
    /\ IF sendId = bound
       THEN /\ sndPc' = [sndPc EXCEPT ![p] = "idem"]
            /\ sndReq' = [sndReq EXCEPT ![p] =
                            [conversation_id |-> MsgConv,
                             client_msg_id |-> clientMsgId,
                             send_id |-> sendId]]
            /\ UNCHANGED <<sndSeq, sndRow, responses>>
       ELSE SendReturn(p, SendFailure(ErrUnauthorized))
    /\ UNCHANGED <<msgStore, pullRes, seqVars>>
    /\ UNCHANGED nonMsgVars

\* step 2, idempotency: a client_msg_id already seen for the conversation
\* returns the stored result
Send_Idem(p) ==
    /\ sndPc[p] = "idem"
    /\ LET seen == GetByClientMsgId(msgStore, sndReq[p].conversation_id,
                                    sndReq[p].client_msg_id)
       IN  IF seen = {}
           THEN SendStep(p, "alloc", 0, <<>>)
           ELSE LET row == CHOOSE r \in seen : TRUE
                IN  IF row.sender_id = sndReq[p].send_id
                    THEN SendStep(p, "respond", 0, <<row>>)
                    ELSE SendReturn(p, SendFailure(ErrConflict))
    /\ UNCHANGED <<msgStore, pullRes, seqVars>>
    /\ UNCHANGED nonMsgVars

\* step 4: one seq from the allocator
Send_Alloc(p) ==
    /\ sndPc[p] = "alloc"
    /\ maxSeq[sndReq[p].conversation_id] < MaxSeq
    /\ maxSeq' = [maxSeq EXCEPT ![sndReq[p].conversation_id] = @ + 1]
    /\ SendStep(p, "put", maxSeq[sndReq[p].conversation_id] + 1, <<>>)
    /\ UNCHANGED <<msgStore, pullRes, seqRest>>
    /\ UNCHANGED nonMsgVars

\* step 4 fails: the allocator is unreachable
Send_AllocFail(p) ==
    /\ sndPc[p] = "alloc"
    /\ SendReturn(p, SendFailure(ErrTransient))
    /\ UNCHANGED <<msgStore, pullRes, seqVars>>
    /\ UNCHANGED nonMsgVars

\* step 5: persist; the row the store gives back is the stored result
Send_Put(p) ==
    /\ sndPc[p] = "put"
    /\ LET msg == [conversation_id |-> sndReq[p].conversation_id,
                   seq |-> sndSeq[p],
                   client_msg_id |-> sndReq[p].client_msg_id,
                   sender_id |-> sndReq[p].send_id,
                   server_msg_id |-> ServerMsgId(sndSeq[p])]
           put == Put(msgStore, msg)
       IN  /\ msgStore' = put.store
           /\ IF put.row.sender_id = msg.sender_id
              THEN SendStep(p, "respond", sndSeq[p], <<put.row>>)
              ELSE SendReturn(p, SendFailure(ErrConflict))
    /\ UNCHANGED <<pullRes, seqVars>>
    /\ UNCHANGED nonMsgVars

\* step 5 fails: the seq is abandoned
Send_PutFail(p) ==
    /\ sndPc[p] = "put"
    /\ SendReturn(p, SendFailure(ErrInternal))
    /\ UNCHANGED <<msgStore, pullRes, seqVars>>
    /\ UNCHANGED nonMsgVars

\* step 7: the send response goes to the sender
Send_Respond(p) ==
    /\ sndPc[p] = "respond"
    /\ SendReturn(p, SendSuccess(sndRow[p][1]))
    /\ UNCHANGED <<msgStore, pullRes, seqVars>>
    /\ UNCHANGED nonMsgVars

\* pull path: the caller must be a participant, then get_range
Pull(userId, beginSeq, endSeq, limit) ==
    /\ pullRes = <<>>
    /\ pullRes' =
          <<IF userId \in Participants
            THEN [user_id |-> userId, begin_seq |-> beginSeq,
                  end_seq |-> endSeq, limit |-> limit, err |-> NoError,
                  msgs |-> GetRange(msgStore, MsgConv, beginSeq, endSeq, limit),
                  after |-> Len(responses)]
            ELSE [user_id |-> userId, begin_seq |-> beginSeq,
                  end_seq |-> endSeq, limit |-> limit, err |-> ErrUnauthorized,
                  msgs |-> <<>>, after |-> Len(responses)]>>
    /\ UNCHANGED <<msgStore, sndPc, sndReq, sndSeq, sndRow, responses, seqVars>>
    /\ UNCHANGED nonMsgVars

\* the pull response is sent
Pull_Done ==
    /\ pullRes # <<>>
    /\ pullRes' = <<>>
    /\ UNCHANGED <<msgStore, sndPc, sndReq, sndSeq, sndRow, responses, seqVars>>
    /\ UNCHANGED nonMsgVars

InitMsg == NewWebSocketClientConn /\ PageIdle /\ SeqInit /\ LaterIdle

NextMsg ==
    \/ \E p \in Senders, bound \in Participants, sendId \in Participants,
          m \in ClientMsgIds : Send_Call(p, bound, sendId, m)
    \/ \E p \in Senders : Send_Idem(p)
    \/ \E p \in Senders : Send_Alloc(p)
    \/ \E p \in Senders : Send_AllocFail(p)
    \/ \E p \in Senders : Send_Put(p)
    \/ \E p \in Senders : Send_PutFail(p)
    \/ \E p \in Senders : Send_Respond(p)
    \/ \E u \in PullUsers, b \in 1..MaxSeq, l \in 1..MaxPullLimit :
          \E e \in b..MaxSeq : Pull(u, b, e, l)
    \/ Pull_Done

SpecMsg == InitMsg /\ [][NextMsg]_vars

RowsFor(conversationId, clientMsgId) ==
    GetByClientMsgId(msgStore, conversationId, clientMsgId)

\* the positions of the successful responses in the log
Successes == {i \in 1..Len(responses) : responses[i].err = NoError}

\* C11: any two successful sends with the same (conversation_id,
\* client_msg_id) were answered with the same (seq, server_msg_id), and the
\* store holds exactly one row for that client_msg_id.
C11_IdempotentSend ==
    /\ \A i \in Successes, j \in Successes :
          (/\ responses[i].conversation_id = responses[j].conversation_id
           /\ responses[i].client_msg_id = responses[j].client_msg_id)
          => /\ responses[i].seq = responses[j].seq
             /\ responses[i].server_msg_id = responses[j].server_msg_id
    /\ \A i \in Successes :
          Cardinality(RowsFor(responses[i].conversation_id,
                              responses[i].client_msg_id)) = 1

\* the same message answered twice, the second send having lost the race to
\* persist after it had allocated a seq of its own
C11_Witness ==
    /\ {1, 2} \subseteq Successes
    /\ responses[1].client_msg_id = responses[2].client_msg_id
    /\ responses[1].seq = 1
    /\ responses[2].seq = 1
    /\ maxSeq[MsgConv] = 2
    /\ Cardinality(RowsFor(MsgConv, responses[1].client_msg_id)) = 1

\* C12: every successful send response with seq > 0 has its row readable at
\* (conversation_id, seq), and a participant's pull of [seq, seq] issued
\* after the response returned that one message with the sender's
\* client_msg_id.
C12_PersistedBeforeResponse ==
    /\ \A i \in Successes :
          responses[i].seq > 0 =>
             LET got == GetRange(msgStore, responses[i].conversation_id,
                                 responses[i].seq, responses[i].seq, 1)
             IN  /\ Len(got) = 1
                 /\ got[1].client_msg_id = responses[i].client_msg_id
    /\ pullRes # <<>> =>
          \A i \in Successes \cap (1..pullRes[1].after) :
             (/\ responses[i].seq > 0
              /\ pullRes[1].user_id \in Participants
              /\ pullRes[1].begin_seq = responses[i].seq
              /\ pullRes[1].end_seq = responses[i].seq)
             => /\ pullRes[1].err = NoError
                /\ Len(pullRes[1].msgs) = 1
                /\ pullRes[1].msgs[1].seq = responses[i].seq
                /\ pullRes[1].msgs[1].client_msg_id = responses[i].client_msg_id

\* the recipient pulled [2, 2] after the second message was answered
C12_Witness ==
    /\ pullRes # <<>>
    /\ \E i \in Successes \cap (1..pullRes[1].after) :
          /\ responses[i].seq = 2
          /\ pullRes[1].begin_seq = 2
          /\ pullRes[1].end_seq = 2
          /\ pullRes[1].user_id \in Participants
          /\ Len(pullRes[1].msgs) = 1

\* ------------------------------------------------------------------------
\* Gateway: the connection table and the dispatch of WebSocket requests.
\* The WebSocket server is described by the design text (connection
\* manager, wire protocol) and driven by the gateway tests.
\* ------------------------------------------------------------------------

\* the sessions created over the whole run
MaxSessions == 3
\* the requests answered over the whole run
MaxRequests == 1

\* the (user, platform) pairs that connect
GwDials == {<<"A", 5>>, <<"A", 1>>, <<"B", 5>>}

Handshaking == "Handshaking"
Active == "Active"
Closing == "Closing"
Closed == "Closed"

NoFrame == ""
KickedFrame == "kicked"
GoneFrame == "closed"

SessIds == 1..Len(gwSess)

\* the sessions that have been inserted into the table so far
Registered == {s \in SessIds : gwSess[s].connected_at > 0}

\* route(user_id): a snapshot of the user's sessions in the table
Route(userId) == {gwTable[userId][pl] : pl \in GwPlatforms} \ {0}

nonGwVars == <<connVars, pageVars, seqVars, actorVars, authVars, convVars,
               msgVars, mainVars>>

\* a client dials /ws with its token, send_id and platform_id
Gw_Connect(userId, platformId) ==
    /\ Len(gwSess) < MaxSessions
    /\ gwSess' = Append(gwSess,
                        [user_id |-> userId, platform_id |-> platformId,
                         state |-> Handshaking, connected_at |-> 0,
                         close_frame |-> NoFrame, reqs |-> <<>>,
                         out |-> <<>>])
    /\ UNCHANGED <<gwTable, gwHandled>>
    /\ UNCHANGED nonGwVars

\* the upgrade or the token validation fails
Gw_Reject(s) ==
    /\ gwSess[s].state = Handshaking
    /\ gwSess' = [gwSess EXCEPT ![s].state = Closed]
    /\ UNCHANGED <<gwTable, gwHandled>>
    /\ UNCHANGED nonGwVars

\* the evicted session goes to Closing with a "kicked" close frame; a
\* session already closing is closed once only
Evict(sess) ==
    IF sess.state = Active
    THEN [sess EXCEPT !.state = Closing, !.close_frame = KickedFrame]
    ELSE sess

\* a registration that leaves the prior session alone
Gw_Register_NoEvict(s) ==
    /\ gwSess[s].state = Handshaking
    /\ gwSess' = [gwSess EXCEPT ![s].state = Active,
                                ![s].connected_at = Cardinality(Registered) + 1]
    /\ gwTable' = [gwTable EXCEPT
                      ![gwSess[s].user_id][gwSess[s].platform_id] = s]
    /\ UNCHANGED gwHandled
    /\ UNCHANGED nonGwVars

\* register: Handshaking -> Active with the table insertion, evicting any
\* prior session on the same (user, platform)
Gw_Register(s) ==
    /\ gwSess[s].state = Handshaking
    /\ LET prior == gwTable[gwSess[s].user_id][gwSess[s].platform_id]
       IN  gwSess' =
              [i \in SessIds |->
                  IF i = s
                  THEN [gwSess[s] EXCEPT
                           !.state = Active,
                           !.connected_at = Cardinality(Registered) + 1]
                  ELSE IF i = prior THEN Evict(gwSess[i]) ELSE gwSess[i]]
    /\ gwTable' = [gwTable EXCEPT
                      ![gwSess[s].user_id][gwSess[s].platform_id] = s]
    /\ UNCHANGED gwHandled
    /\ UNCHANGED nonGwVars

\* Active -> Closing: read error or graceful client close
Gw_Disconnect(s) ==
    /\ gwSess[s].state = Active
    /\ gwSess' = [gwSess EXCEPT ![s].state = Closing,
                                ![s].close_frame = GoneFrame]
    /\ UNCHANGED <<gwTable, gwHandled>>
    /\ UNCHANGED nonGwVars

\* Closing -> Closed: the session is removed from the table
Gw_Unregister(s) ==
    /\ gwSess[s].state = Closing
    /\ gwSess' = [gwSess EXCEPT ![s].state = Closed]
    /\ gwTable' = [gwTable EXCEPT
                      ![gwSess[s].user_id][gwSess[s].platform_id] =
                          IF @ = s THEN 0 ELSE @]
    /\ UNCHANGED gwHandled
    /\ UNCHANGED nonGwVars

SameKey(s, t) ==
    /\ gwSess[s].user_id = gwSess[t].user_id
    /\ gwSess[s].platform_id = gwSess[t].platform_id

\* a later registration took the session's (user, platform)
Superseded(s) ==
    \E t \in Registered :
       SameKey(s, t) /\ gwSess[t].connected_at > gwSess[s].connected_at

\* C13: at most one session is active per (user_id, platform_id); a session
\* whose pair was registered again is closing or closed and has received a
\* close frame; route(user) returns no superseded session and returns every
\* active session of the user.
C13_OneSessionPerPlatform ==
    /\ \A s \in SessIds, t \in SessIds :
          (/\ gwSess[s].state = Active
           /\ gwSess[t].state = Active
           /\ SameKey(s, t)) => s = t
    /\ \A s \in Registered :
          Superseded(s) => /\ gwSess[s].state \in {Closing, Closed}
                           /\ gwSess[s].close_frame # NoFrame
    /\ \A u \in GwUsers :
          /\ \A s \in Route(u) : /\ s \in Registered
                                 /\ gwSess[s].user_id = u
                                 /\ ~Superseded(s)
          /\ \A s \in SessIds :
                (gwSess[s].state = Active /\ gwSess[s].user_id = u)
                => s \in Route(u)

\* user A connected twice on one platform: the first session was kicked and
\* route(A) is the second alone
C13_Witness ==
    /\ Len(gwSess) >= 2
    /\ SameKey(1, 2)
    /\ gwSess[1].user_id = "A"
    /\ gwSess[1].connected_at = 1
    /\ gwSess[1].close_frame = KickedFrame
    /\ gwSess[2].connected_at = 2
    /\ gwSess[2].state = Active
    /\ Route("A") = {2}

\* the opcode of a send, and an opcode no handler is registered for
WSSendMsg == 1003
UnknownReqIdentifier == 9999

\* the registry req_identifier -> handler built at startup
Registry == {WSSendMsg}

ReqIdentifiers == {0, WSSendMsg, UnknownReqIdentifier}
MsgIncrs == {"1", "2"}

ErrInvalidProtocolCode == 1
ErrInvalidProtocol ==
    <<"i", "n", "v", "a", "l", "i", "d", " ",
      "p", "r", "o", "t", "o", "c", "o", "l">>

\* strings.Contains
Contains(str, sub) ==
    \E i \in 0..(Len(str) - Len(sub)) :
       SubSeq(str, i + 1, i + Len(sub)) = sub

\* a dispatch whose protocol error does not echo the request
HandleMessage_NoEcho(req) ==
    IF req.req_identifier \in Registry
    THEN [handled |-> TRUE,
          resp |-> [req_identifier |-> req.req_identifier,
                    msg_incr |-> req.msg_incr,
                    err_code |-> 0, err_msg |-> <<>>]]
    ELSE [handled |-> FALSE,
          resp |-> [req_identifier |-> 0, msg_incr |-> "",
                    err_code |-> ErrInvalidProtocolCode,
                    err_msg |-> ErrInvalidProtocol]]

\* dispatch: a registered opcode runs its handler, any other opcode yields
\* the protocol error; req_identifier and msg_incr are echoed
HandleMessage(req) ==
    IF req.req_identifier \in Registry
    THEN [handled |-> TRUE,
          resp |-> [req_identifier |-> req.req_identifier,
                    msg_incr |-> req.msg_incr,
                    err_code |-> 0, err_msg |-> <<>>]]
    ELSE [handled |-> FALSE,
          resp |-> [req_identifier |-> req.req_identifier,
                    msg_incr |-> req.msg_incr,
                    err_code |-> ErrInvalidProtocolCode,
                    err_msg |-> ErrInvalidProtocol]]

RECURSIVE SumLen(_)
SumLen(sessions) ==
    IF sessions = <<>> THEN 0
    ELSE Len(Head(sessions).out) + SumLen(Tail(sessions))

\* a request frame arrives on an active session and is answered
Gw_Request(s, reqIdentifier, msgIncr) ==
    /\ gwSess[s].state = Active
    /\ SumLen(gwSess) < MaxRequests
    /\ LET req == [req_identifier |-> reqIdentifier, msg_incr |-> msgIncr]
           r == HandleMessage(req)
       IN  /\ gwSess' = [gwSess EXCEPT ![s].reqs = Append(@, req),
                                       ![s].out = Append(@, r.resp)]
           /\ gwHandled' = IF r.handled THEN gwHandled + 1 ELSE gwHandled
    /\ UNCHANGED gwTable
    /\ UNCHANGED nonGwVars

InitGw == NewWebSocketClientConn /\ PageIdle /\ SeqInit /\ LaterIdle

NextGw ==
    \/ \E d \in GwDials : Gw_Connect(d[1], d[2])
    \/ \E s \in SessIds : Gw_Reject(s)
    \/ \E s \in SessIds : Gw_Register(s)
    \/ \E s \in SessIds : Gw_Disconnect(s)
    \/ \E s \in SessIds : Gw_Unregister(s)
    \/ \E s \in SessIds, op \in ReqIdentifiers, incr \in MsgIncrs :
          Gw_Request(s, op, incr)

SpecGw == InitGw /\ [][NextGw]_vars

\* the step in which session s received a request with an unregistered
\* req_identifier
UnknownRequestArrives(s) ==
    /\ Len(gwSess'[s].reqs) = Len(gwSess[s].reqs) + 1
    /\ gwSess'[s].reqs[Len(gwSess'[s].reqs)].req_identifier \notin Registry

\* one response, echoing the request, with the protocol error; nothing else
\* changes
UnknownRequestAnswered(s) ==
    LET req == gwSess'[s].reqs[Len(gwSess'[s].reqs)]
        out == gwSess'[s].out
    IN  /\ Len(out) = Len(gwSess[s].out) + 1
        /\ SubSeq(out, 1, Len(out) - 1) = gwSess[s].out
        /\ out[Len(out)].req_identifier = req.req_identifier
        /\ out[Len(out)].msg_incr = req.msg_incr
        /\ out[Len(out)].err_code # 0
        /\ Contains(out[Len(out)].err_msg, ErrInvalidProtocol)
        /\ gwSess' = [gwSess EXCEPT ![s].reqs = gwSess'[s].reqs,
                                    ![s].out = gwSess'[s].out]
        /\ UNCHANGED <<gwTable, gwHandled>>
        /\ UNCHANGED nonGwVars

UnknownRequestStep ==
    \A s \in SessIds : UnknownRequestArrives(s) => UnknownRequestAnswered(s)

\* C14: a request whose req_identifier is not registered is answered with
\* exactly one response that echoes req_identifier and msg_incr, has a
\* non-zero err_code and an err_msg containing the invalid-protocol text,
\* and the step changes nothing else.
C14_UnknownOpcode == [][UnknownRequestStep]_vars

\* req_identifier 9999 with msg_incr "1" was answered on an active session
\* and no handler ran
C14_Witness ==
    \E s \in SessIds :
       /\ Len(gwSess[s].reqs) = 1
       /\ gwSess[s].reqs[1].req_identifier = UnknownReqIdentifier
       /\ gwSess[s].reqs[1].msg_incr = "1"
       /\ Len(gwSess[s].out) = 1
       /\ gwSess[s].out[1].req_identifier = UnknownReqIdentifier
       /\ gwHandled = 0

(***************************************************************************)
(* Further properties of the connection                                    *)
(***************************************************************************)
\* the step puts a frame on the write channel
Enqueues == Len(writeChan') > Len(writeChan)

\* C22: no WriteMessage sends on the closed write channel.  The closed flag
\* and the closing of the channel change together, whoever holds the mutex
\* between its check and its send is the only goroutine past the check, no
\* step enqueues on the closed channel, and the process never panics with a
\* send on a closed channel.
C22_NoSendOnClosed ==
    /\ [](/\ panic # "send on closed channel"
          /\ closed <=> WriteChanClosed
          /\ \A p \in Writers :
                pcW[p] \in {"check", "select"} => writeMu = p
          /\ \A p \in Writers : pcW[p] = "select" => ~WriteChanClosed)
    /\ [][Enqueues => ~WriteChanClosed /\ ~WriteChanClosed']_vars

\* a WriteMessage that began before any Close had returned lost the race: it
\* found the flag set and returned ErrConnClosed, while another call's frame
\* had been accepted before the close
C22_Witness ==
    /\ WriteChanClosed
    /\ Len(accepted) > 0
    /\ \E p \in Writers : ~lateW[p] /\ retW[p] = ErrConnClosed

\* Scheduling of the connection's goroutines.  A goroutine that can take its
\* next step takes it; a goroutine waiting for the mutex gets it; a select
\* with several ready cases picks among them at random, so a case that is
\* ready again and again is taken.  Nothing obliges a caller to call, nor
\* the ticker to fire.
FairConn ==
    /\ \A p \in Writers : WF_vars(WM_Check(p)) /\ WF_vars(WM_Select(p))
    /\ \A q \in Closers :
          /\ WF_vars(Close_Once(q))
          /\ SF_vars(Close_Lock(q))
          /\ WF_vars(Close_Crit(q))
          /\ WF_vars(Close_CloseChan(q))
          /\ WF_vars(Close_Return(q))
    /\ WF_vars(Loop_WriteData)
    /\ WF_vars(Loop_WriteClose)
    /\ WF_vars(Loop_WritePing)
    /\ WF_vars(Loop_Exit)
    /\ SF_vars(Loop_Recv)
    /\ SF_vars(Loop_RecvClosed)
    /\ SF_vars(Loop_CloseSignal)

SpecConnFair == InitConn /\ [][NextConn]_vars /\ FairConn

\* Close has been called while the write loop was still in its loop
CloseCalledOnRunningLoop ==
    /\ \E q \in Closers : pcC[q] # "idle"
    /\ pcL \notin {"exit", "done"}

LoopTerminated == pcL = "done"

CloseFrameLast == Len(wire) > 0 /\ wire[Len(wire)] = CloseFrame

\* a write to the socket returned an error
SocketWriteFailed == loopEnd \in {"writeError", "pingError", "closeError"}

\* C23: after Close is called on a connection whose write loop is running,
\* the write loop eventually terminates with the socket closed exactly once
\* and, unless a socket write failed, with the close frame as the last frame
\* on the socket.
C23_CloseTerminatesWithFrame ==
    CloseCalledOnRunningLoop ~>
        (/\ LoopTerminated
         /\ sockCloses = 1
         /\ SocketWriteFailed \/ CloseFrameLast)

\* What the code does after such a Close: the write loop eventually
\* terminates and closes the socket exactly once, with the close frame only
\* if it left through the closed write channel and that write succeeded.
C23_Observed ==
    /\ CloseCalledOnRunningLoop ~> (LoopTerminated /\ sockCloses = 1)
    /\ [](sockCloses <= 1)
    /\ []((LoopTerminated /\ loopEnd = "closed") => CloseFrameLast)
    /\ []((LoopTerminated /\ loopEnd # "closed") => ~CloseFrameLast)

\* Close has returned and the write loop has left through closeChan, no
\* socket write having failed: the socket is closed and no close frame was
\* sent
C23_Witness ==
    /\ closeReturned
    /\ LoopTerminated
    /\ loopEnd = "closeSignal"
    /\ sockCloses = 1
    /\ ~CloseFrameLast

\* the write loop has closed the socket and no socket write had failed
SocketClosedCleanly == LoopTerminated /\ ~SocketWriteFailed

\* C24: a frame accepted (WriteMessage returned nil) before any Close call
\* was made is on the socket once the write loop has closed the socket,
\* provided no socket write failed: the k frames accepted before the first
\* Close call are among the frames written, for every k.
C24_AcceptedFramesWritten ==
    \A k \in 1..MaxWrites :
       []((nCloses = 0 /\ Len(accepted) >= k)
          => [](SocketClosedCleanly => Len(DataPayloads(wire)) >= k))

\* What the code does: the accepted frames all reach the socket when the
\* write loop leaves through the closed and drained write channel; what is
\* written is always a prefix of what was accepted.
C24_Observed ==
    /\ (LoopTerminated /\ loopEnd \in {"closed", "closeError"})
          => DataPayloads(wire) = accepted
    /\ IsPrefix(DataPayloads(wire), accepted)

\* the write loop left through closeChan and closed the socket while an
\* accepted frame was still in the write channel, no socket write having
\* failed
C24_Witness ==
    /\ LoopTerminated
    /\ loopEnd = "closeSignal"
    /\ Len(writeChan) > 0
    /\ Len(accepted) > Len(DataPayloads(wire))

\* the write loop has returned because a data write or a ping failed
WriterGone == pcL \in {"exit", "done"} /\ loopEnd \in {"writeError", "pingError"}

NoCallInProgress == \A p \in Writers : pcW[p] = "idle"

\* C25: once the write loop has exited because a data write or a ping
\* failed, no WriteMessage call made from then on returns nil: the frames
\* accepted so far stay the frames accepted for ever.
C25_WriterGoneRejects ==
    \A k \in 0..MaxWrites :
       []((WriterGone /\ NoCallInProgress /\ Len(accepted) = k)
          => [](Len(accepted) = k))

\* What the code does: the value WriteMessage returns depends on the closed
\* flag and on the room in the write channel alone, and the write loop never
\* sets the flag.
C25_Observed ==
    /\ [][\A p \in Writers :
            WM_Returns(p) =>
               retW'[p] = IF closed THEN ErrConnClosed
                          ELSE IF Len(writeChan) < WriteChanCap THEN NoErr
                          ELSE ErrWriteChannelFull]_vars
    /\ [][closed' # closed => \E q \in Closers : pcC[q] = "crit"]_vars

\* the write loop failed on its first ping and closed the socket; the
\* connection is not marked closed and two frames sit accepted in the write
\* channel
C25_Witness ==
    /\ pcL = "done"
    /\ loopEnd = "pingError"
    /\ ~closed
    /\ wire = <<>>
    /\ Len(accepted) = WriteChanCap
    /\ Len(writeChan) = WriteChanCap
    /\ \E p \in Writers : retW[p] = NoErr

(***************************************************************************)
(* The server process: main waits for SIGINT or SIGTERM, shuts the HTTP    *)
(* server down and returns.  The WebSocket sessions are those of the       *)
(* gateway above.                                                          *)
(***************************************************************************)
\* signal.Notify(quit, syscall.SIGINT, syscall.SIGTERM)
Signals == {"SIGINT", "SIGTERM"}

ProcessAlive == mainPc # "exited"

\* <-quit
Main_Signal(sig) ==
    /\ mainPc = "serving"
    /\ mainPc' = "signalled"
    /\ mainSig' = sig
    /\ UNCHANGED listening
    /\ UNCHANGED <<connVars, pageVars, seqVars, actorVars, authVars, convVars,
                   msgVars, gwVars>>

\* h.Shutdown(ctx): the listener is closed; an error is only logged
Main_Shutdown ==
    /\ mainPc = "signalled"
    /\ mainPc' = "stopped"
    /\ listening' = FALSE
    /\ UNCHANGED mainSig
    /\ UNCHANGED <<connVars, pageVars, seqVars, actorVars, authVars, convVars,
                   msgVars, gwVars>>

\* what the end of the process does to a session: its socket is torn down
\* by the operating system, no frame is written
ProcessGone(sess) == [sess EXCEPT !.state = Closed]

\* main returns after "server stopped" (the deferred repos.Close() runs) and
\* the process exits
Main_Return ==
    /\ mainPc = "stopped"
    /\ mainPc' = "exited"
    /\ gwSess' = [s \in SessIds |-> ProcessGone(gwSess[s])]
    /\ gwTable' = [u \in GwUsers |-> [pl \in GwPlatforms |-> 0]]
    /\ UNCHANGED <<gwHandled, mainSig, listening>>
    /\ UNCHANGED <<connVars, pageVars, seqVars, actorVars, authVars, convVars,
                   msgVars>>

\* the listener accepts a dial of /ws
Main_Accept(userId, platformId) ==
    /\ ProcessAlive
    /\ listening
    /\ Gw_Connect(userId, platformId)

\* the sessions live on while the process does
Main_Session(s) ==
    /\ ProcessAlive
    /\ \/ Gw_Reject(s)
       \/ Gw_Register(s)
       \/ Gw_Disconnect(s)
       \/ Gw_Unregister(s)

InitMain == NewWebSocketClientConn /\ PageIdle /\ SeqInit /\ LaterIdle

NextMain ==
    \/ \E sig \in Signals : Main_Signal(sig)
    \/ Main_Shutdown
    \/ Main_Return
    \/ \E d \in GwDials : Main_Accept(d[1], d[2])
    \/ \E s \in SessIds : Main_Session(s)

SpecMain == InitMain /\ [][NextMain]_vars

ShutdownReturned == mainPc \in {"stopped", "exited"}

\* no connection is accepted once h.Shutdown has returned
StopsAccepting ==
    /\ [](ShutdownReturned => ~listening)
    /\ [][ShutdownReturned => Len(gwSess') = Len(gwSess)]_vars

\* C21: on SIGINT or SIGTERM the server stops accepting new connections, and
\* when the process has exited every session that was registered has
\* received a close frame.
C21_GracefulShutdown ==
    /\ StopsAccepting
    /\ [](mainPc = "exited" =>
             \A s \in Registered : gwSess[s].close_frame # NoFrame)

\* What the code does: it stops accepting new connections, and no step of
\* main sends a frame to any session.
C21_Observed ==
    /\ StopsAccepting
    /\ [][mainPc' # mainPc =>
            \A s \in SessIds :
               gwSess'[s].close_frame = gwSess[s].close_frame]_vars

\* the process has exited on SIGTERM and a session that was active until
\* then never received a close frame
C21_Witness ==
    /\ mainPc = "exited"
    /\ mainSig = "SIGTERM"
    /\ \E s \in Registered : gwSess[s].close_frame = NoFrame

(***************************************************************************)
(* The conversation list route: ConversationHandler.GetConversationList in *)
(* front of ConversationService.GetUserConversationsPage, over a table     *)
(* whose rows messages touch between the requests of a paging client.      *)
(***************************************************************************)
\* the user id of a request context with no user bound
NoUser == ""

\* updated_at is a plain int64 column: a stored row may carry 0, and a touch
\* raises it up to MaxTouchTime
MaxTouchTime == 3

\* the tables the list is read from: f gives the updated_at of the caller's
\* conversations (-1: no row), other the rows of the other owner
ListTables ==
    {{[owner_id |-> Caller, conversation_id |-> i, updated_at |-> f[i]] :
          i \in {j \in ConvIds : f[j] >= 0}} \cup other :
       f \in [ConvIds -> -1..MaxTime],
       other \in {{}, {[owner_id |-> OtherOwner, conversation_id |-> MaxConvs,
                        updated_at |-> MaxTime]}}}

\* the body of a list request after binding: absent fields are zero values
ListRequest(k, cu, ci, malformed) ==
    [limit |-> k, cursor_updated_at |-> cu, cursor_conversation_id |-> ci,
     malformed |-> malformed]

\* the requests a caller may send, well-formed or not
ListRequests ==
    {ListRequest(k, cu, ci, m) :
        k \in {-1, 0, 1, MaxConversationListLimit, MaxConversationListLimit + 1},
        cu \in -1..MaxTime, ci \in {EmptyId} \cup ConvIds, m \in BOOLEAN}

\* the answer of a handler that stopped before the service
Refused(code) == [code |-> code, data |-> <<>>, call |-> <<>>]

\* the answer of the handler after the call of the service
Answered(userId, req, res) ==
    [code |-> res.err,
     data |-> IF res.err = NoErr THEN res ELSE <<>>,
     call |-> [user_id |-> userId, limit |-> req.limit,
               cursor_updated_at |-> req.cursor_updated_at,
               cursor_conversation_id |-> req.cursor_conversation_id]]

\* GetConversationList without the check of the limit
GetConversationList_NoLimitCheck(userId, req, repoFails) ==
    IF userId = NoUser THEN Refused(ErrUnauthorized)
    ELSE IF req.malformed THEN Refused(ErrInvalidParam)
    ELSE IF req.cursor_updated_at > 0 /\ req.cursor_conversation_id = EmptyId
    THEN Refused(ErrInvalidParam)
    ELSE IF req.cursor_conversation_id # EmptyId /\ req.cursor_updated_at <= 0
    THEN Refused(ErrInvalidParam)
    ELSE Answered(userId, req,
             IF repoFails THEN PageFailure
             ELSE GetUserConversationsPage(userId, req.limit,
                      req.cursor_updated_at, req.cursor_conversation_id))

\* ConversationHandler.GetConversationList
GetConversationList(userId, req, repoFails) ==
    IF userId = NoUser THEN Refused(ErrUnauthorized)
    ELSE IF req.malformed THEN Refused(ErrInvalidParam)
    ELSE IF req.limit < 0 \/ req.limit > MaxConversationListLimit
    THEN Refused(ErrInvalidParam)
    ELSE IF req.cursor_updated_at > 0 /\ req.cursor_conversation_id = EmptyId
    THEN Refused(ErrInvalidParam)
    ELSE IF req.cursor_conversation_id # EmptyId /\ req.cursor_updated_at <= 0
    THEN Refused(ErrInvalidParam)
    ELSE Answered(userId, req,
             IF repoFails THEN PageFailure
             ELSE GetUserConversationsPage(userId, req.limit,
                      req.cursor_updated_at, req.cursor_conversation_id))

\* the handler serves a request of the user: the call it made of the service
\* and its response are recorded
Serve(userId, req, ans) ==
    /\ lastReq' = ans.call
    /\ lastRes' = [user_id |-> userId, req |-> req, code |-> ans.code,
                   data |-> ans.data]

\* the paging client reads the answer: it takes the page of a success and
\* gives up on an error
ReadAnswer(ans) ==
    IF ans.code = NoErr
    THEN TakePage(ans.data)
    ELSE /\ pgMode' = IF ans.code = ErrInvalidParam THEN "rejected" ELSE "failed"
         /\ UNCHANGED <<pgCursor, pgPages>>

\* Client.GetConversationList: the first page, limit k and no cursor
List_First(k, repoFails) ==
    /\ pgMode = "start"
    /\ pgLimit' = k
    /\ LET req == ListRequest(k, NoUpdatedAt, EmptyId, FALSE)
           ans == GetConversationList(Caller, req, repoFails)
       IN  Serve(Caller, req, ans) /\ ReadAnswer(ans)
    /\ UNCHANGED <<convs, connVars, seqVars, laterVars>>

\* Client.getConversationListPage: the next page, with the cursor the last
\* page carried
List_Next(repoFails) ==
    /\ pgMode = "paging"
    /\ LET req == ListRequest(pgLimit, CursorUpdatedAt(pgCursor),
                              CursorConversationId(pgCursor), FALSE)
           ans == GetConversationList(Caller, req, repoFails)
       IN  Serve(Caller, req, ans) /\ ReadAnswer(ans)
    /\ UNCHANGED <<convs, pgLimit, connVars, seqVars, laterVars>>

\* any single request, of the caller or with no user bound
List_Probe(userId, req, repoFails) ==
    /\ pgMode = "start"
    /\ Serve(userId, req, GetConversationList(userId, req, repoFails))
    /\ pgMode' = "probed"
    /\ UNCHANGED <<convs, pgLimit, pgCursor, pgPages, connVars, seqVars, laterVars>>

\* touch(owner, conversation_id, send_at): a message of time sendAt reaches
\* the caller's conversation i; updated_at never decreases
Conv_Touch(i, sendAt) ==
    /\ pgMode \in {"start", "paging"}
    /\ \E r \in convs :
          /\ r.owner_id = Caller /\ r.conversation_id = i
          /\ r.updated_at < sendAt
          /\ convs' = (convs \ {r}) \cup {[r EXCEPT !.updated_at = sendAt]}
    /\ UNCHANGED <<pgMode, pgLimit, pgCursor, pgPages, lastReq, lastRes,
                   connVars, seqVars, laterVars>>

InitList ==
    /\ NewWebSocketClientConn
    /\ SeqInit
    /\ LaterIdle
    /\ convs \in ListTables
    /\ pgMode = "start"
    /\ pgLimit = 0
    /\ pgCursor = NilCursor
    /\ pgPages = <<>>
    /\ lastReq = <<>>
    /\ lastRes = <<>>

NextList ==
    \/ \E k \in {0, 1, 2}, f \in BOOLEAN : List_First(k, f)
    \/ \E f \in BOOLEAN : List_Next(f)
    \/ \E u \in {NoUser, Caller}, req \in ListRequests, f \in BOOLEAN :
          List_Probe(u, req, f)
    \/ \E i \in ConvIds, t \in 1..MaxTouchTime : Conv_Touch(i, t)

SpecList == InitList /\ [][NextList]_vars

(***************************************************************************)
(* Properties of the conversation list route                               *)
(***************************************************************************)
\* the paging client sends its cursor back: a step that leaves "paging" or
\* stays there without a touch
FollowsCursor == pgMode = "paging" /\ convs' = convs

\* C26: every next_cursor a page carried is accepted when the client sends
\* it back: the handler does not answer InvalidParam and calls the service
\* with that very cursor, whatever the updated_at of the last row.
C26_CursorAccepted ==
    [][FollowsCursor =>
          /\ lastRes'.code # ErrInvalidParam
          /\ lastReq' # <<>>
          /\ lastReq'.cursor_updated_at = pgCursor[1].updated_at
          /\ lastReq'.cursor_conversation_id = pgCursor[1].conversation_id]_vars

\* what the code does: a cursor whose updated_at is positive is passed to
\* the service as it is, and one whose updated_at is 0 is answered
\* InvalidParam without a call of the service
C26_Observed ==
    [][FollowsCursor =>
          IF pgCursor[1].updated_at > 0
          THEN /\ lastRes'.code # ErrInvalidParam
               /\ lastReq' # <<>>
               /\ lastReq'.cursor_updated_at = pgCursor[1].updated_at
               /\ lastReq'.cursor_conversation_id = pgCursor[1].conversation_id
          ELSE /\ lastRes'.code = ErrInvalidParam
               /\ lastReq' = <<>>
               /\ pgMode' = "rejected"]_vars

\* the client was refused the cursor of a page whose last row has
\* updated_at 0
C26_Witness ==
    /\ pgMode = "rejected"
    /\ pgCursor # NilCursor
    /\ pgCursor[1].updated_at = 0
    /\ pgCursor[1].conversation_id # EmptyId
    /\ Len(pgPages) >= 1
    /\ lastRes.code = ErrInvalidParam

\* the conversations the client has been shown, page after page
ShownIds == [i \in 1..Len(pgPages) |-> pgPages[i].conversation_id]

\* C27: while conversations are touched between the requests (updated_at
\* only increases), the pages a client collects by following next_cursor
\* from the first page never show a conversation twice.
C27_NoRepeatUnderTouch ==
    pgMode \in {"paging", "done", "rejected", "failed"} =>
        \A i, j \in 1..Len(pgPages) : ShownIds[i] = ShownIds[j] => i = j

\* the client finished a list of several pages during which a conversation
\* it had been shown was touched and another one, touched before its page
\* came, was never shown
C27_Witness ==
    /\ pgMode = "done"
    /\ pgLimit = 1
    /\ Len(pgPages) >= 2
    /\ \E i \in 1..Len(pgPages) : \E r \in convs :
          /\ r.owner_id = Caller
          /\ r.conversation_id = pgPages[i].conversation_id
          /\ r.updated_at > pgPages[i].updated_at
    /\ \E r \in convs :
          /\ r.owner_id = Caller
          /\ \A i \in 1..Len(pgPages) : pgPages[i].conversation_id # r.conversation_id

\* the limit is out of range, or exactly one of the cursor fields is given
LimitOutOfRange(req) == req.limit < 0 \/ req.limit > 100
HalfCursor(req) ==
    \/ req.cursor_updated_at > 0 /\ req.cursor_conversation_id = EmptyId
    \/ req.cursor_conversation_id # EmptyId /\ req.cursor_updated_at <= 0

\* a request of a bound user has just been answered
ListAnswered == lastRes # <<>> /\ lastRes.user_id # NoUser

\* C28: a list request of a bound user whose limit is negative or above 100,
\* or that gives exactly one of cursor_updated_at (> 0) and
\* cursor_conversation_id (non-empty), is answered InvalidParam without a
\* call of the conversation service, and the step that answers it leaves
\* the table and the client's pages as they were.
C28_InvalidListRequest ==
    /\ []((ListAnswered /\ (LimitOutOfRange(lastRes.req) \/ HalfCursor(lastRes.req)))
            => (lastRes.code = ErrInvalidParam /\ lastReq = <<>>))
    /\ [][(lastRes' # lastRes /\ lastRes'.code = ErrInvalidParam)
            => (convs' = convs /\ pgPages' = pgPages /\ pgCursor' = pgCursor)]_vars

\* a well-formed request of the caller was refused for a limit of 101 with a
\* complete cursor, or for a lone cursor_updated_at with a limit in range
C28_Witness ==
    /\ ListAnswered
    /\ lastRes.code = ErrInvalidParam
    /\ lastReq = <<>>
    /\ ~lastRes.req.malformed
    /\ \/ /\ lastRes.req.limit = 101
          /\ lastRes.req.cursor_updated_at > 0
          /\ lastRes.req.cursor_conversation_id # EmptyId
       \/ /\ lastRes.req.limit = 1
          /\ lastRes.req.cursor_updated_at > 0
          /\ lastRes.req.cursor_conversation_id = EmptyId

(***************************************************************************)
(* The conversation routes: the /conversation group behind JWTAuth and     *)
(* /internal/conversation behind InternalAuthAsUser, each request going    *)
(* through the middleware and then, unless aborted, the handler.           *)
(***************************************************************************)
\* user ids are character sequences in the middleware and names in the
\* tables of the conversations: the name a sequence stands for
UserName(chars) ==
    IF chars = <<>> THEN NoUser
    ELSE IF chars = <<"u", "1">> THEN "u1"
    ELSE IF chars = <<"u", "2">> THEN "u2"
    ELSE "u3"

\* middleware.GetUserId: the user id the chain bound, "" when it bound none
GetUserId(c) == IF c.ran THEN UserName(c.user_id) ELSE NoUser

\* the call of a service method a handler made
ServiceCall(op, userId, conversationId) ==
    [op |-> op, user_id |-> userId, conversation_id |-> conversationId]

\* ConversationService.GetAllUserConversations: every conversation of the
\* user, in the order of the list
GetAllUserConversations(userId, repoFails) ==
    IF repoFails THEN [err |-> ErrInternalServer, list |-> <<>>]
    ELSE LET own == {r \in convs : r.owner_id = userId}
         IN  [err |-> NoErr,
              list |-> buildConversationInfos(FirstRows(own, Cardinality(own)))]

\* GetAllConversationList calling the service whoever asks
Handle_GetAllConversationList_NoUserCheck(userId, malformed, repoFails) ==
    IF malformed THEN Refused(ErrInvalidParam)
    ELSE [code |-> GetAllUserConversations(userId, repoFails).err,
          data |-> GetAllUserConversations(userId, repoFails).list,
          call |-> ServiceCall("GetAllUserConversations", userId, "")]

\* ConversationHandler.GetAllConversationList
Handle_GetAllConversationList(userId, malformed, repoFails) ==
    IF userId = NoUser THEN Refused(ErrUnauthorized)
    ELSE IF malformed THEN Refused(ErrInvalidParam)
    ELSE [code |-> GetAllUserConversations(userId, repoFails).err,
          data |-> GetAllUserConversations(userId, repoFails).list,
          call |-> ServiceCall("GetAllUserConversations", userId, "")]

\* ConversationHandler.GetConversation
Handle_GetConversation(userId, conversationId, repoFails) ==
    IF userId = NoUser THEN Refused(ErrUnauthorized)
    ELSE IF conversationId = "" THEN Refused(ErrInvalidParam)
    ELSE [code |-> GetConversation(userId, conversationId, repoFails).err,
          data |-> GetConversation(userId, conversationId, repoFails).info,
          call |-> ServiceCall("GetConversation", userId, conversationId)]

\* ConversationHandler.UpdateConversation
Handle_UpdateConversation(userId, conversationId, malformed, req, repoFails) ==
    IF userId = NoUser THEN Refused(ErrUnauthorized)
    ELSE IF conversationId = "" THEN Refused(ErrInvalidParam)
    ELSE IF malformed THEN Refused(ErrInvalidParam)
    ELSE [code |-> UpdateConversation(userId, conversationId, req, repoFails).err,
          data |-> <<>>,
          call |-> ServiceCall("UpdateConversation", userId, conversationId)]

\* ConversationHandler.MarkRead
Handle_MarkRead(userId, malformed, conversationId, seq, repoFails) ==
    IF userId = NoUser THEN Refused(ErrUnauthorized)
    ELSE IF malformed THEN Refused(ErrInvalidParam)
    ELSE [code |-> IF repoFails THEN ErrInternalServer ELSE NoErr,
          data |-> <<>>,
          call |-> ServiceCall("MarkRead", userId, conversationId)]

\* ConversationHandler.GetMaxReadSeq
Handle_GetMaxReadSeq(userId, conversationId, repoFails) ==
    IF userId = NoUser THEN Refused(ErrUnauthorized)
    ELSE IF conversationId = "" THEN Refused(ErrInvalidParam)
    ELSE [code |-> GetMaxReadSeq_Handler(userId, conversationId, repoFails).err,
          data |-> GetMaxReadSeq_Handler(userId, conversationId, repoFails).data,
          call |-> ServiceCall("GetMaxReadSeq", userId, conversationId)]

\* ConversationHandler.GetUnreadCount
Handle_GetUnreadCount(userId, conversationId, readSeqStr, repoFails) ==
    IF userId = NoUser THEN Refused(ErrUnauthorized)
    ELSE IF conversationId = "" THEN Refused(ErrInvalidParam)
    ELSE [code |-> GetUnreadCount_Handler(userId, conversationId, readSeqStr,
                                          repoFails).err,
          data |-> GetUnreadCount_Handler(userId, conversationId, readSeqStr,
                                          repoFails).data,
          call |-> ServiceCall("GetMaxReadSeq", userId, conversationId)]

\* what a request on a conversation route leaves alone, the rows apart
routeRest == <<cfg, infraEnv, connVars, pageVars, maxSeq, pcA, argA, retA,
               floorA, returned, issued, markReq, actorVars, msgVars, gwVars,
               mainVars>>

\* a request goes through the chain: the middleware answers chain, and the
\* handler, when the chain runs it, answers ans
Through(mw, req, chain, op, ans) ==
    /\ httpReq = None
    /\ cvReq = <<>>
    /\ httpReq' = [mw |-> mw, req |-> req]
    /\ httpRes' = chain
    /\ IF chain.ran
       THEN /\ cvReq' = [op |-> op, user_id |-> GetUserId(chain)]
            /\ cvRes' = ans
       ELSE /\ cvReq' = [op |-> "none", user_id |-> NoUser]
            /\ cvRes' = <<>>
    /\ UNCHANGED routeRest

\* GET /conversation/all
Route_GetAllConversationList(req, malformed, repoFails) ==
    /\ Through("JWTAuth", req, JWTAuth(req), "GetAllConversationList",
               Handle_GetAllConversationList(GetUserId(JWTAuth(req)), malformed,
                                             repoFails))
    /\ UNCHANGED <<convTable, readSeq>>

\* GET /conversation/list
Route_GetConversationList(req, body, repoFails) ==
    /\ Through("JWTAuth", req, JWTAuth(req), "GetConversationList",
               GetConversationList(GetUserId(JWTAuth(req)), body, repoFails))
    /\ UNCHANGED <<convTable, readSeq>>

\* POST /internal/conversation/list
Route_InternalGetConversationList(b, kind, userId, platformId, body, repoFails) ==
    /\ LET req == InternalRequest(b, kind, userId, platformId)
       IN  Through("InternalAuthAsUser", req, InternalAuthAsUser(req),
                   "GetConversationList",
                   GetConversationList(GetUserId(InternalAuthAsUser(req)), body,
                                       repoFails))
    /\ UNCHANGED <<convTable, readSeq>>

\* GET /conversation/info
Route_GetConversation(req, conversationId, repoFails) ==
    /\ Through("JWTAuth", req, JWTAuth(req), "GetConversation",
               Handle_GetConversation(GetUserId(JWTAuth(req)), conversationId,
                                      repoFails))
    /\ UNCHANGED <<convTable, readSeq>>

\* PUT /conversation/update
Route_UpdateConversation(req, conversationId, malformed, patch, repoFails) ==
    LET userId == GetUserId(JWTAuth(req))
        ans == Handle_UpdateConversation(userId, conversationId, malformed,
                                         patch, repoFails)
    IN  /\ Through("JWTAuth", req, JWTAuth(req), "UpdateConversation", ans)
        /\ convTable' = IF ans.call # <<>>
                        THEN UpdateConversation(userId, conversationId, patch,
                                                repoFails).table
                        ELSE convTable
        /\ UNCHANGED readSeq

\* POST /conversation/mark_read
Route_MarkRead(req, malformed, conversationId, seq, repoFails) ==
    LET userId == GetUserId(JWTAuth(req))
        ans == Handle_MarkRead(userId, malformed, conversationId, seq, repoFails)
    IN  /\ Through("JWTAuth", req, JWTAuth(req), "MarkRead", ans)
        /\ readSeq' = IF ans.call # <<>> /\ ans.code = NoErr
                      THEN MarkRead(userId, conversationId, seq)
                      ELSE readSeq
        /\ UNCHANGED convTable

\* GET /conversation/max_read_seq
Route_GetMaxReadSeq(req, conversationId, repoFails) ==
    /\ Through("JWTAuth", req, JWTAuth(req), "GetMaxReadSeq",
               Handle_GetMaxReadSeq(GetUserId(JWTAuth(req)), conversationId,
                                    repoFails))
    /\ UNCHANGED <<convTable, readSeq>>

\* GET /conversation/unread_count
Route_GetUnreadCount(req, conversationId, readSeqStr, repoFails) ==
    /\ Through("JWTAuth", req, JWTAuth(req), "GetUnreadCount",
               Handle_GetUnreadCount(GetUserId(JWTAuth(req)), conversationId,
                                     readSeqStr, repoFails))
    /\ UNCHANGED <<convTable, readSeq>>

\* the response is sent and the request context released
Route_Done ==
    /\ httpReq # None
    /\ httpReq' = None
    /\ httpRes' = None
    /\ cvReq' = <<>>
    /\ cvRes' = <<>>
    /\ UNCHANGED <<convTable, readSeq>>
    /\ UNCHANGED routeRest

\* the requests sent to the JWT routes: no token, the token of u1, a token
\* signed with another secret, each with and without the Ignore-Auth header
RouteRequests ==
    {r \in JWTRequests :
        /\ r.Authorization \in {<<>>, BearerPrefix \o <<"n">>, BearerPrefix \o <<"m">>}
        /\ r.XToken = <<>>}

\* the internal requests sent to /internal/conversation/list
RouteBases ==
    {b \in AsUserBases : b.ServiceName = <<"s", "v", "c">> /\ b.Now = 1
                         /\ b.Timestamp = FormatInt(1)}

\* the bodies of the list requests
RouteListBodies ==
    {ListRequest(k, cu, ci, m) :
        k \in {1}, cu \in {0, 1}, ci \in {EmptyId, 1}, m \in BOOLEAN}

\* conversation ids of the queries, "" for an absent one
RouteConvIds == {""} \cup ConvNames
RouteSeqConvIds == {""} \cup SeqConvs

InitRoute ==
    /\ NewWebSocketClientConn /\ ActorIdle /\ ConvIdle /\ MsgIdle /\ GwIdle
    /\ MainServing
    /\ convs = TableOf([i \in 1..2 |-> 1], [i \in 1..1 |-> 1])
    /\ pgMode = "off"
    /\ pgLimit = 0
    /\ pgCursor = NilCursor
    /\ pgPages = <<>>
    /\ lastReq = <<>>
    /\ lastRes = <<>>
    /\ maxSeq = [c \in SeqConvs |-> MaxSeq]
    /\ readSeq = [u \in SeqUsers |-> [c \in SeqConvs |-> 0]]
    /\ pcA = [a \in Allocators |-> "idle"]
    /\ argA = [a \in Allocators |-> None]
    /\ retA = [a \in Allocators |-> None]
    /\ floorA = [a \in Allocators |-> 0]
    /\ returned = maxSeq
    /\ issued = [c \in SeqConvs |-> Numbers(1, maxSeq[c])]
    /\ markReq = [u \in SeqUsers |-> None]
    /\ cfg \in [JWT : {JWTConfig},
                ExternalJWT : {[Enabled |-> FALSE, Secret |-> "s2",
                                DefaultPlatformId |-> DefaultPlatformId]},
                InternalAuth : {InternalAuthOff,
                                [Enabled |-> TRUE, Secret |-> CallerSecret,
                                 AllowedServices |-> <<>>,
                                 MaxSkewSeconds |-> 1]}]
    /\ infraEnv \in EnvValues
    /\ httpReq = None
    /\ httpRes = None

NextRoute ==
    \/ \E req \in RouteRequests, m \in BOOLEAN, f \in BOOLEAN :
          Route_GetAllConversationList(req, m, f)
    \/ \E req \in RouteRequests, body \in RouteListBodies, f \in BOOLEAN :
          Route_GetConversationList(req, body, f)
    \/ \E b \in RouteBases, kind \in {"none", "good"}, u \in UserIdValues,
          pl \in {<<>>, <<"2">>}, body \in RouteListBodies, f \in BOOLEAN :
          Route_InternalGetConversationList(b, kind, u, pl, body, f)
    \/ \E req \in RouteRequests, c \in RouteConvIds, f \in BOOLEAN :
          Route_GetConversation(req, c, f)
    \/ \E req \in RouteRequests, c \in RouteConvIds, m \in BOOLEAN,
          patch \in UpdateRequests, f \in BOOLEAN :
          Route_UpdateConversation(req, c, m, patch, f)
    \/ \E req \in RouteRequests, m \in BOOLEAN, c \in SeqConvs,
          seq \in {1, MaxSeq}, f \in BOOLEAN :
          Route_MarkRead(req, m, c, seq, f)
    \/ \E req \in RouteRequests, c \in RouteSeqConvIds, f \in BOOLEAN :
          Route_GetMaxReadSeq(req, c, f)
    \/ \E req \in RouteRequests, c \in RouteSeqConvIds,
          q \in {<<>>, FormatInt64(1)}, f \in BOOLEAN :
          Route_GetUnreadCount(req, c, q, f)
    \/ Route_Done

SpecRoute == InitRoute /\ [][NextRoute]_vars

(***************************************************************************)
(* Properties of the conversation routes                                   *)
(***************************************************************************)
\* a handler ran and answered
HandlerAnswered == cvReq # <<>> /\ cvRes # <<>>

\* a request comes in whose chain runs the handler with no user bound
UnboundRequestServed ==
    cvReq = <<>> /\ cvReq' # <<>> /\ cvRes' # <<>> /\ cvReq'.user_id = NoUser

\* C29: no conversation handler calls the conversation service with an
\* empty user id: a request whose handler runs with no user bound in the
\* context, one let through by the Ignore-Auth header in the TEST
\* environment included, is answered Unauthorized with no service call, and
\* leaves the rows as they were.
C29_NoServiceCallWithoutUser ==
    /\ [](HandlerAnswered =>
            /\ cvRes.call # <<>> => cvRes.call.user_id # NoUser
            /\ cvReq.user_id = NoUser =>
                  (cvRes.code = ErrUnauthorized /\ cvRes.call = <<>>))
    /\ [][UnboundRequestServed =>
            (convTable' = convTable /\ readSeq' = readSeq /\ convs' = convs)]_vars

\* in the TEST environment a mark_read request with the Ignore-Auth header
\* and no token reached the handler and was answered Unauthorized
C29_Witness ==
    /\ isTestEnv
    /\ httpReq # None
    /\ httpReq.mw = "JWTAuth"
    /\ httpReq.req.IgnoreAuth # <<>>
    /\ httpReq.req.Authorization = <<>>
    /\ httpRes.ran
    /\ cvReq.op = "MarkRead"
    /\ cvReq.user_id = NoUser
    /\ cvRes.code = ErrUnauthorized
    /\ cvRes.call = <<>>

(***************************************************************************)
(* What the internal signature covers: requests to the acting-as-user      *)
(* routes that differ in X-User-Id, X-Platform-Id and the query string.    *)
(***************************************************************************)
\* c.Path(): the request URI up to its query string
URIPath(uri) ==
    IF \E i \in 1..Len(uri) : uri[i] = "?"
    THEN SubSeq(uri, 1, (CHOOSE i \in 1..Len(uri) :
                            uri[i] = "?" /\ \A j \in 1..(i - 1) : uri[j] # "?") - 1)
    ELSE uri

\* the query strings a request URI may end in
QueryStrings == { <<>>, <<"?", "a">>, <<"?", "b", "?">> }

\* the acting users a caller may name
ActingUserIds == { <<>>, <<"u", "1">>, <<" ", "u", "2">> }

\* the request a calling service sends: b signed as kind says, the headers
\* naming the acting user, the query string behind the path
ActingRequest(b, kind, userId, platformId, query) ==
    [ServiceName |-> b.ServiceName, Timestamp |-> b.Timestamp,
     Signature |-> SignatureOf(b, kind), Method |-> b.Method,
     RequestURI |-> b.Path \o query, Path |-> URIPath(b.Path \o query),
     Body |-> b.Body, Now |-> b.Now, UserId |-> userId,
     PlatformId |-> platformId]

\* the same request with other X-User-Id, X-Platform-Id and query string
Variant(req, userId, platformId, query) ==
    [req EXCEPT !.UserId = userId, !.PlatformId = platformId,
                !.RequestURI = req.Path \o query,
                !.Path = URIPath(req.Path \o query)]

\* a request reaches a route behind InternalAuthAsUser
Sig_AsUser(b, kind, userId, platformId, query) ==
    /\ httpReq = None
    /\ httpReq' = [mw |-> "InternalAuthAsUser",
                   req |-> ActingRequest(b, kind, userId, platformId, query)]
    /\ httpRes' = InternalAuthAsUser(ActingRequest(b, kind, userId, platformId,
                                                   query))
    /\ UNCHANGED <<cfg, infraEnv>>
    /\ UNCHANGED nonAuthVars

\* the response is sent and the request context released
Sig_Done ==
    /\ httpReq # None
    /\ httpReq' = None
    /\ httpRes' = None
    /\ UNCHANGED <<cfg, infraEnv>>
    /\ UNCHANGED nonAuthVars

\* the internal auth of the servers the requests are sent to
SigConfigs ==
    {InternalAuthOff} \cup
    [Enabled : {TRUE}, Secret : {CallerSecret, <<"k", "2">>},
     AllowedServices : { <<>>, << <<"s", "v", "c">> >> },
     MaxSkewSeconds : {0, 1}]

InitSig ==
    /\ NewWebSocketClientConn /\ PageIdle /\ SeqInit /\ ActorIdle /\ ConvIdle
    /\ MsgIdle /\ GwIdle /\ MainServing
    /\ cfg \in [JWT : {JWTConfig},
                ExternalJWT : {[Enabled |-> FALSE, Secret |-> "s2",
                                DefaultPlatformId |-> DefaultPlatformId]},
                InternalAuth : SigConfigs]
    /\ infraEnv = <<>>
    /\ httpReq = None
    /\ httpRes = None

NextSig ==
    \/ \E b \in AsUserBases, kind \in {"none", "good", "forged"},
          u \in ActingUserIds, pl \in PlatformIdValues, q \in QueryStrings :
              Sig_AsUser(b, kind, u, pl, q)
    \/ Sig_Done

SpecSig == InitSig /\ [][NextSig]_vars

\* the request now behind InternalAuthAsUser
ActingRequestHandled == httpReq # None /\ httpReq.mw = "InternalAuthAsUser"

\* C30: the verdict of the internal signature check is the same for two
\* requests that differ only in X-User-Id, X-Platform-Id or the query string,
\* and on a request that passes it InternalAuthAsUser binds whichever acting
\* user the X-User-Id header names.
C30_SignatureIgnoresActingUser ==
    ActingRequestHandled =>
        /\ \A u \in ActingUserIds, pl \in PlatformIdValues, q \in QueryStrings :
              validateInternalRequest(Variant(httpReq.req, u, pl, q)) =
                  validateInternalRequest(httpReq.req)
        /\ validateInternalRequest(httpReq.req).err = NoErr =>
              \A u \in ActingUserIds \ {<<>>}, q \in QueryStrings :
                  /\ InternalAuthAsUser(Variant(httpReq.req, u, <<>>, q)).ran
                  /\ InternalAuthAsUser(Variant(httpReq.req, u, <<>>, q)).user_id
                        = TrimSpace(u)

\* a correctly signed request with a query string passed the check and the
\* handler ran as the user its X-User-Id header named
C30_Witness ==
    /\ ActingRequestHandled
    /\ validateInternalRequest(httpReq.req).err = NoErr
    /\ httpReq.req.RequestURI # httpReq.req.Path
    /\ httpReq.req.UserId = <<" ", "u", "2">>
    /\ httpRes.ran
    /\ httpRes.user_id = <<"u", "2">>

====
